---- MODULE Spec2Model ----
(***************************************************************************)
(* A model of the virtual disk image engine of python-packages/Disk.py:    *)
(* Disk.Track, Disk.DirectoryEntry, Disk.Layout and Disk, with the part of *)
(* python-packages/Buffer.py that Disk uses.                               *)
(*                                                                         *)
(* Representation.  A Python bytes object is a sequence of numbers in      *)
(* 0..255; Python's 0-based index i is the TLA+ index i + 1.  A sector     *)
(* slot holds NoData (Python None), a sequence of 256 bytes, or ZeroBlock, *)
(* the compact form of the 256 zero bytes that Track.output writes for a   *)
(* sector that was never written; Block() expands it, and every read of a  *)
(* payload goes through Block().  A raised exception is a result record    *)
(* whose field ok is FALSE; the disk it carries is the state the exception *)
(* leaves behind.                                                          *)
(***************************************************************************)
EXTENDS Integers, Sequences, FiniteSets, TLC

\* ------------------------------------------------------------------ bytes

\* The size of a sector in bytes.
BlockSize == 256

\* The number of payload bytes of a file block.
PayloadSize == 254

\* The bytes of a directory entry and the entries of a directory block.
EntrySize == 32
EntriesPerBlock == 8

\* Python None, for a sector or track number and for a sector payload.
NONE == -1
NoData == << >>

\* The compact form of b"\x00" * 256.
ZeroBlock == <<0>>

Min(a, b) == IF a < b THEN a ELSE b

Zeros(n) == [i \in 1..n |-> 0]
Fill(byte, n) == [i \in 1..n |-> byte]

Block(x) == IF x = ZeroBlock THEN Zeros(BlockSize) ELSE x
Pack(x) ==
    IF Len(x) = BlockSize /\ \A i \in 1..BlockSize : x[i] = 0 THEN ZeroBlock ELSE x

\* data[lo:hi] for 0 <= lo, 0 <= hi.
Slice(data, lo, hi) == SubSeq(data, lo + 1, Min(hi, Len(data)))

\* bytes.rstrip(byte)
RECURSIVE RStrip(_, _)
RStrip(data, byte) ==
    IF Len(data) > 0 /\ data[Len(data)] = byte
    THEN RStrip(SubSeq(data, 1, Len(data) - 1), byte)
    ELSE data

\* Buffer.add_data(data, length, padding)
add_data(buffer, data, length, padding) ==
    buffer \o data \o
        (IF Len(data) < length THEN Fill(padding, length - Len(data)) ELSE << >>)

\* Buffer.add_int(value, size) in little-endian order; to_bytes raises
\* OverflowError when the value does not fit: see IntFits.
RECURSIVE IntBytes(_, _)
IntBytes(value, size) ==
    IF size = 0 THEN << >>
    ELSE <<value % 256>> \o IntBytes(value \div 256, size - 1)

RECURSIVE Pow256(_)
Pow256(size) == IF size = 0 THEN 1 ELSE 256 * Pow256(size - 1)

IntFits(value, size) == value >= 0 /\ value < Pow256(size)

add_int(buffer, value, size) == buffer \o IntBytes(value, size)
add_byte(buffer, byte) == add_int(buffer, byte, 1)
add_word(buffer, word) == add_int(buffer, word, 2)
add_zeros(buffer, length) == buffer \o Zeros(length)

\* Buffer.pad(length) with the default padding byte 0.
pad(buffer, length) ==
    IF Len(buffer) < length THEN buffer \o Zeros(length - Len(buffer)) ELSE buffer

\* int.from_bytes(data, byteorder="little")
RECURSIVE from_bytes(_)
from_bytes(data) ==
    IF Len(data) = 0 THEN 0
    ELSE data[1] + 256 * from_bytes(SubSeq(data, 2, Len(data)))

\* ---------------------------------------------------------------- layouts

LayoutNames == <<"d64", "d71", "d81">>

Zone(tracks, sectors) == [tracks |-> tracks, sectors |-> sectors]

\* "2a" and "3d" in ASCII.
Layouts ==
    [d64 |-> [zones |-> <<Zone(17, 21), Zone(7, 19), Zone(6, 18), Zone(5, 17)>>,
              directory_tracks |-> <<18>>, dos_type |-> <<50, 97>>,
              interleave |-> 10, directory_interleave |-> 3],
     d71 |-> [zones |-> <<Zone(17, 21), Zone(7, 19), Zone(6, 18), Zone(5, 17),
                          Zone(17, 21), Zone(7, 19), Zone(6, 18), Zone(5, 17)>>,
              directory_tracks |-> <<18, 53>>, dos_type |-> <<50, 97>>,
              interleave |-> 6, directory_interleave |-> 3],
     d81 |-> [zones |-> <<Zone(80, 40)>>,
              directory_tracks |-> <<40>>, dos_type |-> <<51, 100>>,
              interleave |-> 1, directory_interleave |-> 1]]

RECURSIVE SumZones(_, _)
SumZones(zones, perTrack) ==
    IF zones = << >> THEN 0
    ELSE zones[1].tracks * (IF perTrack THEN zones[1].sectors ELSE 1)
         + SumZones(Tail(zones), perTrack)

\* Layout.tracks and Layout.sectors
LayoutTracks(layout) == SumZones(layout.zones, FALSE)
LayoutSectors(layout) == SumZones(layout.zones, TRUE)

\* The sector count of every track, in zone order.
RECURSIVE TrackLengths(_)
TrackLengths(zones) ==
    IF zones = << >> THEN << >>
    ELSE [i \in 1..zones[1].tracks |-> zones[1].sectors] \o TrackLengths(Tail(zones))

file_types == [del |-> 128, prg |-> 130, seq |-> 129, usr |-> 132]
FileTypeNames == <<"del", "prg", "seq", "usr">>

\* ------------------------------------------------------------------ Track

\* Track.__init__
Track(length) ==
    [sectors |-> [s \in 1..length |-> NoData],
     errors |-> [s \in 1..length |-> 0],
     free |-> [s \in 1..length |-> TRUE],
     blocks_free |-> length]

length(track) == Len(track.sectors)

\* Every Track method that takes a sector raises when sector >= length.
valid_sector(track, sector) == sector < length(track)

is_free(track, sector) == track.free[sector + 1]

\* mark_used without the is_free test: the count drops at every call.
mark_used_unchecked(track, sector) ==
    [track EXCEPT !.blocks_free = track.blocks_free - 1,
                  !.free[sector + 1] = FALSE]

mark_used(track, sector) ==
    [track EXCEPT !.blocks_free = IF is_free(track, sector)
                                  THEN track.blocks_free - 1 ELSE track.blocks_free,
                  !.free[sector + 1] = FALSE]

mark_free(track, sector) ==
    [track EXCEPT !.blocks_free = IF ~is_free(track, sector)
                                  THEN track.blocks_free + 1 ELSE track.blocks_free,
                  !.free[sector + 1] = TRUE]

set_error(track, sector, error) == [track EXCEPT !.errors[sector + 1] = error]

get_error(track, sector) == track.errors[sector + 1]

track_has_errors(track) == \E s \in 1..length(track) : track.errors[s] # 0

is_ok(track, sector) == get_error(track, sector) = 0

is_full(track) == track.blocks_free = 0

RECURSIVE FirstFreeFrom(_, _)
FirstFreeFrom(track, sector) ==
    IF sector >= length(track) THEN NONE
    ELSE IF is_free(track, sector) THEN sector
    ELSE FirstFreeFrom(track, sector + 1)

\* first_free that returns the last free sector of the track.
first_free_last(track) ==
    IF is_full(track) \/ \A s \in 1..length(track) : ~track.free[s] THEN NONE
    ELSE CHOOSE s \in 0..(length(track) - 1) :
            track.free[s + 1] /\ \A u \in (s + 1)..(length(track) - 1) : ~track.free[u + 1]

first_free(track) == IF is_full(track) THEN NONE ELSE FirstFreeFrom(track, 0)

\* The while loop of next_free, at its test.
RECURSIVE NextFreeScan(_, _, _, _)
NextFreeScan(track, sector, start_sector, ignore_sector) ==
    IF ~(~is_free(track, sector) \/ sector = ignore_sector) THEN sector
    ELSE LET next == IF sector + 1 >= length(track) THEN 0 ELSE sector + 1
         IN  IF next = start_sector THEN NONE
             ELSE NextFreeScan(track, next, start_sector, ignore_sector)

\* next_free without ignore_sector: the scan stops at any free sector.
next_free_any(track, sector, ignore_sector) ==
    LET start_sector ==
            IF sector >= length(track)
            THEN LET m == sector % length(track) IN IF m > 0 THEN m - 1 ELSE m
            ELSE sector
    IN  NextFreeScan(track, start_sector, start_sector, NONE)

\* next_free that wraps to sector mod length, without the step back.
next_free_wrap(track, sector, ignore_sector) ==
    LET start_sector ==
            IF sector >= length(track) THEN sector % length(track) ELSE sector
    IN  NextFreeScan(track, start_sector, start_sector, ignore_sector)

next_free(track, sector, ignore_sector) ==
    LET start_sector ==
            IF sector >= length(track)
            THEN LET m == sector % length(track) IN IF m > 0 THEN m - 1 ELSE m
            ELSE sector
    IN  NextFreeScan(track, start_sector, start_sector, ignore_sector)

\* Track.write; the caller has checked valid_sector and the length of data.
write(track, sector, data, markUsed, error) ==
    LET t == IF markUsed THEN mark_used(track, sector) ELSE track
    IN  [t EXCEPT !.sectors[sector + 1] = data, !.errors[sector + 1] = error]

\* Track.read raises when the sector has an error code.
read_ok(track, sector) == valid_sector(track, sector) /\ is_ok(track, sector)
read(track, sector) == track.sectors[sector + 1]

\* The bitmask of Track.encode_bam.  bam holds one bit per sector, the first
\* sector in the most significant of them, so the sector with 0-based index
\* i is bit length - 1 - i; BamBit is that bit, and BamByte the byte of
\* bam.to_bytes(size, "little") at 0-based offset j (bam itself can exceed
\* 32 bits).  to_bytes raises OverflowError when bam needs more than size
\* bytes.
BamBit(track, pos) ==
    IF pos < length(track) /\ track.sectors[length(track) - pos] = NoData THEN 1 ELSE 0

BamByte(track, j) ==
    BamBit(track, 8 * j) + 2 * BamBit(track, 8 * j + 1) + 4 * BamBit(track, 8 * j + 2)
    + 8 * BamBit(track, 8 * j + 3) + 16 * BamBit(track, 8 * j + 4)
    + 32 * BamBit(track, 8 * j + 5) + 64 * BamBit(track, 8 * j + 6)
    + 128 * BamBit(track, 8 * j + 7)

track_encode_bam_ok(track, size) ==
    /\ IntFits(track.blocks_free, 1)
    /\ \A pos \in 0..(length(track) - 1) : pos >= 8 * size => BamBit(track, pos) = 0

track_encode_bam(track, buffer, size) ==
    add_byte(buffer, track.blocks_free) \o [j \in 1..size |-> BamByte(track, j - 1)]

\* Track.output: the chunks written to the file, one per sector.
track_output(track) ==
    [s \in 1..length(track) |->
        IF track.sectors[s] = NoData THEN ZeroBlock ELSE Pack(track.sectors[s])]

\* Track.output_errors: one byte per sector; to_bytes raises OverflowError
\* for a code outside 0..255.
track_output_errors_ok(track) == \A s \in 1..length(track) : IntFits(track.errors[s], 1)
track_output_errors(track) == track.errors

\* ------------------------------------------------------- DirectoryEntry

DirectoryEntry(name, type, track, sector, blocks, closed, locked) ==
    [name |-> name, type |-> type, track |-> track, sector |-> sector,
     blocks |-> blocks, closed |-> closed, locked |-> locked]

\* type_byte |= 0x80, type_byte |= 0x40: every code of file_types has bit
\* 0x80 set and bit 0x40 clear.
TypeByte(entry) ==
    file_types[entry.type] + (IF entry.locked THEN 64 ELSE 0)

\* DirectoryEntry.encode with the start track and sector in the other order.
entry_encode_swapped(entry, buffer, track, sector) ==
    LET b1 == add_byte(buffer, track)
        b2 == add_byte(b1, sector)
        b3 == add_byte(b2, TypeByte(entry))
        b4 == add_byte(b3, entry.sector)
        b5 == add_byte(b4, entry.track)
        b6 == add_data(b5, entry.name, 16, 160)
        b7 == add_zeros(b6, 9)
    IN  add_word(b7, entry.blocks)

\* DirectoryEntry.encode
entry_encode(entry, buffer, track, sector) ==
    LET b1 == add_byte(buffer, track)
        b2 == add_byte(b1, sector)
        b3 == add_byte(b2, TypeByte(entry))
        b4 == add_byte(b3, entry.track)
        b5 == add_byte(b4, entry.sector)
        b6 == add_data(b5, entry.name, 16, 160)
        b7 == add_zeros(b6, 9)
    IN  add_word(b7, entry.blocks)

\* ------------------------------------------------------------------- Disk

Result(ok, disk, err) == [ok |-> ok, disk |-> disk, err |-> err]

num_tracks(disk) == Len(disk.tracks)

is_double_sided(disk) == num_tracks(disk) = 70

Layout(disk) == Layouts[disk.layout]

\* Disk.set_name; the name is assigned before the id is checked.
set_name(disk, name, id) ==
    IF Len(name) > 16 THEN Result(FALSE, disk, "disk name is too long")
    ELSE LET d == [disk EXCEPT !.name = name]
         IN  IF Len(id) <= 2
             THEN Result(TRUE,
                         [d EXCEPT !.id = id \o Fill(32, 3 - Len(id)) \o Layout(disk).dos_type],
                         "")
             ELSE IF Len(id) > 5 THEN Result(FALSE, d, "disk id too long")
             ELSE Result(TRUE, [d EXCEPT !.id = id], "")

\* Disk.__init__ with a type and no data.
NewDisk(type, name, id) ==
    set_name([layout |-> type,
              tracks |-> [t \in 1..Len(TrackLengths(Layouts[type].zones)) |->
                              Track(TrackLengths(Layouts[type].zones)[t])],
              directory |-> << >>,
              name |-> << >>,
              id |-> << >>],
             name, id)

\* Disk.add_del
add_del(disk, name) ==
    IF Len(name) > 16 THEN Result(FALSE, disk, "file name is too long")
    ELSE Result(TRUE,
                [disk EXCEPT !.directory =
                    Append(disk.directory,
                           DirectoryEntry(name, "del", 0, 0, 0, TRUE, FALSE))],
                "")

\* add_block without the is_free test.
add_block_over(disk, track, sector, data) ==
    IF track <= 0 \/ track > num_tracks(disk)
    THEN Result(FALSE, disk, "invalid track")
    ELSE IF sector < 0 \/ sector >= length(disk.tracks[track])
    THEN Result(FALSE, disk, "invalid sector")
    ELSE IF Len(data) # BlockSize
    THEN Result(FALSE, disk, "invalid block length")
    ELSE Result(TRUE,
                [disk EXCEPT !.tracks[track] =
                            write(disk.tracks[track], sector, data, TRUE, 0)],
                "")

\* Disk.add_block; track and sector are numbers here (see add_file_data for
\* the calls that pass None).
add_block(disk, track, sector, data) ==
    IF track <= 0 \/ track > num_tracks(disk)
    THEN Result(FALSE, disk, "invalid track")
    ELSE IF sector < 0 \/ sector >= length(disk.tracks[track])
    THEN Result(FALSE, disk, "invalid sector")
    ELSE IF Len(data) # BlockSize
    THEN Result(FALSE, disk, "invalid block length")
    ELSE IF ~is_free(disk.tracks[track], sector)
    THEN Result(FALSE, disk, "block already used")
    ELSE Result(TRUE,
                [disk EXCEPT !.tracks[track] =
                            write(disk.tracks[track], sector, data, TRUE, 0)],
                "")

\* encode_track_sector with the sector before the track.
encode_sector_track(track, sector, data) ==
    add_data(add_byte(add_byte(<< >>, sector), track), data, PayloadSize, 0)

\* Disk.encode_track_sector
encode_track_sector(track, sector, data) ==
    add_data(add_byte(add_byte(<< >>, track), sector), data, PayloadSize, 0)

\* Disk.find_first_block; the result is <<track, sector>> or <<NONE, NONE>>.
\* The while loop for the distances lo..hi: the first of them at which a
\* track has a free sector, the track below before the track above (the
\* range is halved to keep the evaluation shallow).
RECURSIVE FindFirstBlockFrom(_, _, _, _)
FindFirstBlockFrom(disk, track, lo, hi) ==
    LET Above(sector) ==
            IF sector # NONE THEN <<track + lo, sector>> ELSE <<NONE, NONE>>
        Below(sector) ==
            IF sector # NONE THEN <<track - lo, sector>>
            ELSE Above(IF track + lo <= num_tracks(disk)
                       THEN first_free(disk.tracks[track + lo]) ELSE NONE)
        Nearer(found) ==
            IF found[1] # NONE THEN found
            ELSE FindFirstBlockFrom(disk, track, ((lo + hi) \div 2) + 1, hi)
    IN  IF lo > hi THEN <<NONE, NONE>>
        ELSE IF lo = hi
        THEN Below(IF track - lo > 0
                   THEN first_free(disk.tracks[track - lo]) ELSE NONE)
        ELSE Nearer(FindFirstBlockFrom(disk, track, lo, (lo + hi) \div 2))

\* The loop ends at the first distance at which there is no track on either
\* side.
find_first_block(disk) ==
    FindFirstBlockFrom(disk, Layout(disk).directory_tracks[1], 1,
                       IF Layout(disk).directory_tracks[1] - 1
                              > num_tracks(disk) - Layout(disk).directory_tracks[1]
                       THEN Layout(disk).directory_tracks[1] - 1
                       ELSE num_tracks(disk) - Layout(disk).directory_tracks[1])

\* The while loop of find_next_block for as long as it goes one way: the
\* tracks from + lo * direction, ..., from + hi * direction, in this order,
\* and the first of them where next_free finds a sector (the range is
\* halved to keep the evaluation shallow).
RECURSIVE FindNextBlockLoop(_, _, _, _, _, _, _)
FindNextBlockLoop(disk, start_track, sector, from, direction, lo, hi) ==
    LET On(track, next_sector) ==
            IF next_sector # NONE THEN <<track, next_sector>> ELSE <<NONE, NONE>>
        At(track) ==
            On(track, next_free(disk.tracks[track],
                                sector + Layout(disk).interleave,
                                IF track = start_track THEN sector ELSE NONE))
        Nearer(found) ==
            IF found[1] # NONE THEN found
            ELSE FindNextBlockLoop(disk, start_track, sector, from, direction,
                                   ((lo + hi) \div 2) + 1, hi)
    IN  IF lo > hi THEN <<NONE, NONE>>
        ELSE IF lo = hi THEN At(from + lo * direction)
        ELSE Nearer(FindNextBlockLoop(disk, start_track, sector, from, direction,
                                      lo, (lo + hi) \div 2))

\* The number of tracks from track to the end of the disk, going in
\* direction.
TracksAhead(disk, track, direction) ==
    IF direction < 0 THEN track ELSE num_tracks(disk) - track + 1

\* Disk.find_next_block from track, going in direction: to the end of the
\* disk, then, when changed_direction is not set, from the track next to
\* the first directory track to the other end.
FindNextBlockFrom(disk, track, sector, direction, changed_direction) ==
    LET Back(from) ==
            FindNextBlockLoop(disk, track, sector, from, 0 - direction, 0,
                              TracksAhead(disk, from, 0 - direction) - 1)
        Turned(found) ==
            IF found[1] # NONE \/ changed_direction THEN found
            ELSE Back(Layout(disk).directory_tracks[1] + (0 - direction))
    IN  Turned(FindNextBlockLoop(disk, track, sector, track, direction, 0,
                                 TracksAhead(disk, track, direction) - 1))

\* find_next_block that gives up at the first end of the disk it comes to.
find_next_block_one_way(disk, track, sector) ==
    FindNextBlockFrom(disk, track, sector,
                      IF track < Layout(disk).directory_tracks[1] THEN -1 ELSE 1,
                      TRUE)

find_next_block(disk, track, sector) ==
    FindNextBlockFrom(disk, track, sector,
                      IF track < Layout(disk).directory_tracks[1] THEN -1 ELSE 1,
                      FALSE)

\* data[i:i + 254] for i in range(0, len(data), 254)
Chunks(data, size) ==
    [k \in 1..((Len(data) + size - 1) \div size) |->
        Slice(data, (k - 1) * size, k * size)]

\* A chain end that declares len(block) instead of len(block) + 1.
last_block_short(block) == encode_track_sector(0, Len(block), block)

\* The block that ends a chain: encode_track_sector(0, len(block) + 1, block).
last_block(block) == encode_track_sector(0, Len(block) + 1, block)

\* The for loop of add_file_data over blocks[:-1], then its else branch.
\* chain lists the blocks written, calls the <<argument, result>> pairs of
\* find_next_block.
RECURSIVE AddFileBlocks(_, _, _, _, _, _, _)
AddFileBlocks(disk, blocks, k, track, sector, chain, calls) ==
    LET Done(added, written) ==
            [ok |-> added.ok, disk |-> added.disk, err |-> added.err,
             chain |-> IF added.ok THEN written ELSE chain, calls |-> calls]
        Linked(next, step) ==
            IF ~step.added.ok
            THEN [ok |-> FALSE, disk |-> step.added.disk, err |-> step.added.err,
                  chain |-> chain, calls |-> step.calls]
            ELSE AddFileBlocks(step.added.disk, blocks, k + 1, next[1], next[2],
                               step.chain, step.calls)
        Then(next) ==
            IF next[1] = NONE
            THEN [ok |-> FALSE, disk |-> disk, err |-> "disk full", chain |-> chain,
                  calls |-> Append(calls, <<track, sector, next[1], next[2]>>)]
            ELSE Linked(next,
                        [added |-> add_block(disk, track, sector,
                                             encode_track_sector(next[1], next[2],
                                                                 blocks[k])),
                         chain |-> Append(chain, <<track, sector>>),
                         calls |-> Append(calls, <<track, sector, next[1], next[2]>>)])
    IN  IF k < Len(blocks) THEN Then(find_next_block(disk, track, sector))
        ELSE Done(add_block(disk, track, sector, last_block(blocks[k])),
                  Append(chain, <<track, sector>>))

\* Disk.add_file_data.  With no block at all blocks[-1] raises IndexError;
\* with no free block find_first_block returns (None, None), and the
\* comparison of None with a number in find_next_block or add_block raises
\* TypeError.  Both leave the disk as it was.
add_file_data(disk, data) ==
    LET Blocks(blocks, start) ==
            [track |-> start[1], sector |-> start[2], blocks |-> Len(blocks)]
            @@ (IF Len(blocks) = 0
                THEN [ok |-> FALSE, disk |-> disk, err |-> "IndexError",
                      chain |-> << >>, calls |-> << >>]
                ELSE IF start[1] = NONE
                THEN [ok |-> FALSE, disk |-> disk, err |-> "TypeError",
                      chain |-> << >>, calls |-> << >>]
                ELSE AddFileBlocks(disk, blocks, 1, start[1], start[2], << >>, << >>))
    IN  Blocks(Chunks(data, PayloadSize), find_first_block(disk))

\* Disk.add_file; the entry is always of type "prg".
add_file(disk, name, data, type) ==
    LET Fail(err) == [ok |-> FALSE, disk |-> disk, err |-> err,
                      chain |-> << >>, calls |-> << >>]
        Entry(added) ==
            IF ~added.ok
            THEN [ok |-> FALSE, disk |-> added.disk, err |-> added.err,
                  chain |-> added.chain, calls |-> added.calls]
            ELSE [ok |-> TRUE,
                  disk |-> [added.disk EXCEPT !.directory =
                              Append(added.disk.directory,
                                     DirectoryEntry(name, "prg", added.track,
                                                    added.sector, added.blocks,
                                                    TRUE, FALSE))],
                  err |-> "", chain |-> added.chain, calls |-> added.calls]
    IN  IF Len(name) > 16 THEN Fail("file name is too long")
        ELSE IF type \notin DOMAIN file_types THEN Fail("unknown file type")
        ELSE Entry(add_file_data(disk, data))

\* has_errors that looks at the first track only.
has_errors_first(disk) == track_has_errors(disk.tracks[1])

\* Disk.has_errors
has_errors(disk) == \E t \in 1..num_tracks(disk) : track_has_errors(disk.tracks[t])

\* find_first_directory_block that returns sector 1 on every layout.
find_first_directory_block_one(disk) == <<Layout(disk).directory_tracks[1], 1>>

\* Disk.find_first_directory_block
find_first_directory_block(disk) ==
    LET First(track) == IF track = 40 THEN <<track, 3>> ELSE <<track, 1>>
    IN  First(Layout(disk).directory_tracks[1])

\* list.index(track); 0 when the track is not in the list (ValueError).
IndexOf(seq, x) ==
    IF \E i \in 1..Len(seq) : seq[i] = x
    THEN CHOOSE i \in 1..Len(seq) : seq[i] = x /\ \A j \in 1..(i - 1) : seq[j] # x
    ELSE 0

\* The for loop of find_next_directory_block over the directory tracks.
RECURSIVE FindNextDirectoryLoop(_, _, _, _, _)
FindNextDirectoryLoop(disk, layout, start_track, sector, index) ==
    LET Found(track, next_sector) ==
            IF next_sector # NONE THEN <<track, next_sector>>
            ELSE FindNextDirectoryLoop(disk, layout, start_track, sector, index + 1)
        On(track) ==
            Found(track, next_free(disk.tracks[track],
                                   sector + layout.directory_interleave,
                                   IF track = start_track THEN sector ELSE NONE))
    IN  IF index > Len(layout.directory_tracks) THEN <<NONE, NONE>>
        ELSE On(layout.directory_tracks[index])

\* Disk.find_next_directory_block; <<NONE, NONE>> stands for its result None.
find_next_directory_block(disk, track, sector) ==
    LET From(layout) ==
            FindNextDirectoryLoop(disk, layout, track, sector,
                                  IndexOf(layout.directory_tracks, track))
    IN  From(Layout(disk))

\* DirectoryEntry.encode raises KeyError for a type that is not in
\* file_types and OverflowError for a number that does not fit its field.
entry_encode_ok(entry) ==
    /\ entry.type \in DOMAIN file_types
    /\ IntFits(entry.track, 1)
    /\ IntFits(entry.sector, 1)
    /\ IntFits(entry.blocks, 2)

RECURSIVE EncodeEntries(_, _, _)
EncodeEntries(entries, k, buffer) ==
    IF k > Len(entries) THEN buffer
    ELSE EncodeEntries(entries, k + 1, entry_encode(entries[k], buffer, 0, 0))

\* Disk.encode_directory_block
encode_directory_block(disk, track, sector, entries, next_track, next_sector) ==
    IF \E k \in 1..Len(entries) : ~entry_encode_ok(entries[k])
    THEN Result(FALSE, disk, "cannot encode entry")
    ELSE add_block(disk, track, sector,
                   pad(EncodeEntries(entries, 2,
                                     entry_encode(entries[1], << >>, next_track, next_sector)),
                       BlockSize))

\* The for loop of encode_directory over blocks[:-1], then its else branch.
\* placed lists the directory blocks written.
RECURSIVE EncodeDirectoryLoop(_, _, _, _, _, _)
EncodeDirectoryLoop(disk, blocks, k, track, sector, placed) ==
    LET Last(done) ==
            done @@ [placed |-> IF done.ok THEN Append(placed, <<track, sector>>)
                                ELSE placed]
        Linked(next, done) ==
            IF ~done.ok THEN done @@ [placed |-> placed]
            ELSE EncodeDirectoryLoop(done.disk, blocks, k + 1, next[1], next[2],
                                     Append(placed, <<track, sector>>))
        Then(next) ==
            IF next[1] = NONE
            THEN [ok |-> FALSE, disk |-> disk, err |-> "TypeError", placed |-> placed]
            ELSE Linked(next, encode_directory_block(disk, track, sector, blocks[k],
                                                     next[1], next[2]))
    IN  IF k < Len(blocks) THEN Then(find_next_directory_block(disk, track, sector))
        ELSE Last(encode_directory_block(disk, track, sector, blocks[k], 0, 255))

\* Disk.encode_directory; with an empty directory blocks[-1] raises
\* IndexError.
encode_directory(disk) ==
    LET Blocks(blocks, first) ==
            IF Len(blocks) = 0
            THEN [ok |-> FALSE, disk |-> disk, err |-> "IndexError", placed |-> << >>]
            ELSE EncodeDirectoryLoop(disk, blocks, 1, first[1], first[2], << >>)
    IN  Blocks(Chunks(disk.directory, EntriesPerBlock), find_first_directory_block(disk))

\* What track.encode_bam(buffer, size) appends for the tracks lo..hi, in
\* order (the range is halved to keep the evaluation shallow).
RECURSIVE TracksBam(_, _, _, _)
TracksBam(disk, lo, hi, size) ==
    IF lo > hi THEN << >>
    ELSE IF lo = hi THEN track_encode_bam(disk.tracks[lo], << >>, size)
    ELSE TracksBam(disk, lo, (lo + hi) \div 2, size)
         \o TracksBam(disk, ((lo + hi) \div 2) + 1, hi, size)

EncodeTracksBam(disk, lo, hi, size, buffer) == buffer \o TracksBam(disk, lo, hi, size)

TracksBamOk(disk, lo, hi, size) ==
    \A t \in lo..hi : track_encode_bam_ok(disk.tracks[t], size)

\* The first sector that encode_bam writes, on the first directory track.
\* dos_type[-1].upper() is the dos type's last letter in upper case.
BamSector(disk) ==
    LET Start(first, dos_type) ==
            add_byte(add_byte(add_byte(add_byte(<< >>, first[1]), first[2]),
                              dos_type[2] - 32),
                     IF is_double_sided(disk) THEN 1 ELSE 0)
        Tracks(buffer) ==
            IF num_tracks(disk) <= 70
            THEN EncodeTracksBam(disk, 1, Min(35, num_tracks(disk)), 3, buffer)
            ELSE buffer
        Named(buffer) ==
            add_word(add_data(add_word(add_data(buffer, disk.name, 16, 160), 41120),
                              disk.id, 0, 0),
                     41120)
        Short(buffer) == IF num_tracks(disk) <= 70 THEN add_word(buffer, 41120) ELSE buffer
        Second(buffer) ==
            IF is_double_sided(disk)
            THEN pad(buffer, 221)
                 \o [t \in 1..(num_tracks(disk) - 35) |-> disk.tracks[35 + t].blocks_free]
            ELSE buffer
    IN  pad(Second(Short(Named(Tracks(Start(find_first_directory_block(disk),
                                          Layout(disk).dos_type))))),
            BlockSize)

\* The sector of side 0 or 1 that encode_bam writes on a disk of more than
\* 70 tracks.
SideSector(disk, side) ==
    LET Start(layout, dos_version) ==
            add_byte(add_byte(IF side = 0
                              THEN add_byte(add_byte(<< >>, layout.directory_tracks[1]), 2)
                              ELSE add_byte(add_byte(<< >>, 0), 255),
                              dos_version),
                     255 - dos_version)
        Id(buffer) ==
            pad(add_byte(add_byte(add_data(buffer, Slice(disk.id, 0, 2), 0, 0), 192), 0),
                16)
        Of(layout) == Id(Start(layout, layout.dos_type[2] - 32))
    IN  EncodeTracksBam(disk, side * 40 + 1, Min(side * 40 + 40, num_tracks(disk)), 5,
                        Of(Layout(disk)))

\* Disk.encode_bam
encode_bam(disk) ==
    LET Put(d, ok, track, sector, data) ==
            IF ~ok THEN Result(FALSE, d, "OverflowError")
            ELSE add_block(d, track, sector, data)
        Side(d, dir, k) ==
            Put(d, TracksBamOk(d, k * 40 + 1, Min(k * 40 + 40, num_tracks(d)), 5),
                  dir[1], k + 1, SideSector(d, k))
        Sides(dir, side0) == IF ~side0.ok THEN side0 ELSE Side(side0.disk, dir, 1)
        Second(d, dir) ==
            Put(d, TracksBamOk(d, 36, num_tracks(d), 3), dir[2], 0,
                  pad(EncodeTracksBam(d, 36, num_tracks(d), 3, << >>), BlockSize))
        Rest(dir, first) ==
            IF ~first.ok THEN first
            ELSE IF is_double_sided(disk) THEN Second(first.disk, dir)
            ELSE IF num_tracks(disk) > 70 THEN Sides(dir, Side(first.disk, dir, 0))
            ELSE first
        First(dir) ==
            Rest(dir, Put(disk,
                            num_tracks(disk) > 70
                                \/ TracksBamOk(disk, 1, Min(35, num_tracks(disk)), 3),
                            dir[1], 0, BamSector(disk)))
    IN  First(Layout(disk).directory_tracks)

\* ----------------------------------------------------------------- output

\* A byte stream, as written to a file or handed to Disk(data=...): the
\* chunks of 256 bytes in blocks, in order, then the bytes of tail.
Data(blocks, tail) == [blocks |-> blocks, tail |-> tail]
NoFile == Data(<< >>, << >>)

DataLen(data) == BlockSize * Len(data.blocks) + Len(data.tail)

\* data[i]
DataAt(data, i) ==
    IF i < BlockSize * Len(data.blocks)
    THEN Block(data.blocks[(i \div BlockSize) + 1])[(i % BlockSize) + 1]
    ELSE data.tail[i - BlockSize * Len(data.blocks) + 1]

\* data[block * 256:(block + 1) * 256], within the data.
DataBlock(data, block) ==
    IF block < Len(data.blocks) THEN data.blocks[block + 1]
    ELSE Pack([i \in 1..BlockSize |-> DataAt(data, block * BlockSize + i - 1)])

\* What track.output writes for the tracks lo..hi, in order (the range is
\* halved to keep the evaluation shallow).
RECURSIVE OutputTracks(_, _, _)
OutputTracks(disk, lo, hi) ==
    IF lo > hi THEN << >>
    ELSE IF lo = hi THEN track_output(disk.tracks[lo])
    ELSE OutputTracks(disk, lo, (lo + hi) \div 2)
         \o OutputTracks(disk, ((lo + hi) \div 2) + 1, hi)

\* What track.output_errors writes for the tracks lo..hi, in order, when
\* to_bytes accepts every code.
RECURSIVE OutputErrors(_, _, _)
OutputErrors(disk, lo, hi) ==
    IF lo > hi THEN << >>
    ELSE IF lo = hi THEN track_output_errors(disk.tracks[lo])
    ELSE OutputErrors(disk, lo, (lo + hi) \div 2)
         \o OutputErrors(disk, ((lo + hi) \div 2) + 1, hi)

\* The error bytes written before to_bytes refuses one.
WrittenErrors(errors) ==
    IF \A i \in 1..Len(errors) : IntFits(errors[i], 1) THEN errors
    ELSE SubSeq(errors, 1,
                (CHOOSE i \in 1..Len(errors) :
                    /\ ~IntFits(errors[i], 1)
                    /\ \A j \in 1..(i - 1) : IntFits(errors[j], 1)) - 1)

\* Disk.output; file is what the call has written to the file.
output(disk) ==
    LET Fail(r, placed) ==
            [ok |-> FALSE, disk |-> r.disk, err |-> r.err, file |-> NoFile,
             placed |-> placed]
        Errors(d, placed, sectors, fits, errors) ==
            [ok |-> fits, disk |-> d, err |-> IF fits THEN "" ELSE "OverflowError",
             file |-> Data(sectors, IF fits THEN errors ELSE WrittenErrors(errors)),
             placed |-> placed]
        Tracks(d, placed, sectors) ==
            IF ~has_errors(d)
            THEN [ok |-> TRUE, disk |-> d, err |-> "", file |-> Data(sectors, << >>),
                  placed |-> placed]
            ELSE Errors(d, placed, sectors,
                        \A t \in 1..num_tracks(d) : track_output_errors_ok(d.tracks[t]),
                        OutputErrors(d, 1, num_tracks(d)))
        Bam(bam, placed) ==
            IF ~bam.ok THEN Fail(bam, placed)
            ELSE Tracks(bam.disk, placed, OutputTracks(bam.disk, 1, num_tracks(bam.disk)))
        Directory(dir) ==
            IF ~dir.ok THEN Fail(dir, dir.placed)
            ELSE Bam(encode_bam(dir.disk), dir.placed)
    IN  Directory(encode_directory(disk))

\* ------------------------------------------------------------------ parse

\* The layout whose sector total is blocks, the first in catalog order;
\* "" when there is none.
RECURSIVE MatchLayout(_, _)
MatchLayout(blocks, k) ==
    IF k > Len(LayoutNames) THEN ""
    ELSE IF LayoutSectors(Layouts[LayoutNames[k]]) = blocks THEN LayoutNames[k]
    ELSE MatchLayout(blocks, k + 1)

\* Detection that counts 256-byte blocks whatever the length is.
DetectFloor(len) ==
    [sized |-> len % 256 = 0 \/ len % 257 = 0, blocks |-> len \div 256,
     errors |-> len % 256 # 0,
     layout |-> IF len % 256 = 0 \/ len % 257 = 0
                THEN MatchLayout(len \div 256, 1) ELSE ""]

\* The head of Disk.__init__ with data: the number of blocks, whether an
\* error plane follows them, and the layout.
Detect(len) ==
    LET Of(sized, errors, blocks) ==
            [sized |-> sized, blocks |-> blocks, errors |-> errors,
             layout |-> IF sized THEN MatchLayout(blocks, 1) ELSE ""]
    IN  IF len % 256 = 0 THEN Of(TRUE, FALSE, len \div 256)
        ELSE IF len % 257 = 0 THEN Of(TRUE, TRUE, len \div 257)
        ELSE Of(FALSE, FALSE, 0)

\* The number of the first block of track k: the sectors of the tracks
\* before it.
RECURSIVE TrackStart(_, _)
TrackStart(zones, k) ==
    IF zones = << >> \/ k <= 1 THEN 0
    ELSE IF k - 1 <= zones[1].tracks THEN (k - 1) * zones[1].sectors
    ELSE zones[1].tracks * zones[1].sectors + TrackStart(Tail(zones), k - zones[1].tracks)

\* The loops of Disk.__init__ over zones, tracks and sectors: the track of
\* number k, whose first sector is the block of number start.
ParseTrack(data, det, len, start) ==
    [sectors |-> [s \in 1..len |-> DataBlock(data, start + s - 1)],
     errors |-> [s \in 1..len |->
                    IF det.errors THEN DataAt(data, det.blocks * 256 + start + s - 1)
                    ELSE 0],
     free |-> [s \in 1..len |-> TRUE],
     blocks_free |-> len]

ParseTracks(data, det, zones) ==
    LET lengths == TrackLengths(zones)
    IN  [k \in 1..Len(lengths) |-> ParseTrack(data, det, lengths[k], TrackStart(zones, k))]

\* One slot of a directory block in parse_directory; i is 0..7.
ParseEntry(dir_data, i) ==
    LET entry_offset == i * EntrySize
        entry_type == dir_data[entry_offset + 3]
        code == (entry_type % 8) + 128
        file_type ==
            IF \E k \in 1..Len(FileTypeNames) : file_types[FileTypeNames[k]] = code
            THEN FileTypeNames[CHOOSE k \in 1..Len(FileTypeNames) :
                                   file_types[FileTypeNames[k]] = code]
            ELSE "???"
    IN  DirectoryEntry(RStrip(Slice(dir_data, entry_offset + 5, entry_offset + 21), 160),
                       file_type,
                       dir_data[entry_offset + 4],
                       dir_data[entry_offset + 5],
                       from_bytes(Slice(dir_data, entry_offset + 30, entry_offset + 32)),
                       (entry_type \div 128) % 2 = 1,
                       (entry_type \div 64) % 2 = 1)

RECURSIVE ParseEntries(_, _)
ParseEntries(dir_data, i) ==
    IF i >= EntriesPerBlock THEN << >>
    ELSE (IF dir_data[i * EntrySize + 3] = 0 THEN << >>
          ELSE <<ParseEntry(dir_data, i)>>)
         \o ParseEntries(dir_data, i + 1)

\* The while loop of parse_directory, at its test.  seen holds the blocks
\* read so far: the loop has no state but (track, sector) and reads only,
\* so it never ends once it comes to a block a second time.
RECURSIVE ParseDirectoryLoop(_, _, _, _, _)
ParseDirectoryLoop(disk, track, sector, directory, seen) ==
    IF track = 0 THEN [ok |-> TRUE, directory |-> directory, err |-> ""]
    ELSE IF <<track, sector>> \in seen
    THEN [ok |-> FALSE, directory |-> directory, err |-> "does not terminate"]
    ELSE IF track > num_tracks(disk)
    THEN [ok |-> FALSE, directory |-> directory, err |-> "IndexError"]
    ELSE IF ~valid_sector(disk.tracks[track], sector)
    THEN [ok |-> FALSE, directory |-> directory, err |-> "invalid sector"]
    ELSE IF ~is_ok(disk.tracks[track], sector)
    THEN [ok |-> FALSE, directory |-> directory, err |-> "read error"]
    ELSE IF read(disk.tracks[track], sector) = NoData
    THEN [ok |-> FALSE, directory |-> directory, err |-> "unable to read directory sector"]
    ELSE LET dir_data == Block(read(disk.tracks[track], sector))
         IN  ParseDirectoryLoop(disk, dir_data[1], dir_data[2],
                                directory \o ParseEntries(dir_data, 0),
                                seen \cup {<<track, sector>>})

\* Disk.parse_directory
parse_directory(disk) ==
    LET Walked(named, walked) ==
            Result(walked.ok, [named EXCEPT !.directory = walked.directory], walked.err)
        Named(named, first) ==
            Walked(named, ParseDirectoryLoop(named, first[1], first[2], << >>, {}))
        Bam(bam_data) ==
            Named([disk EXCEPT !.name = RStrip(Slice(bam_data, 144, 160), 160),
                               !.id = RStrip(Slice(bam_data, 162, 167), 160)],
                  find_first_directory_block(disk))
        OnTrack(bam_track) ==
            IF ~is_ok(bam_track, 0) THEN Result(FALSE, disk, "read error")
            ELSE IF read(bam_track, 0) = NoData
            THEN Result(FALSE, disk, "unable to read BAM sector")
            ELSE Bam(Block(read(bam_track, 0)))
    IN  OnTrack(disk.tracks[Layout(disk).directory_tracks[1]])

\* No Disk: what the caller holds when the constructor raises.
NoDisk == [layout |-> "", tracks |-> << >>, directory |-> << >>,
           name |-> << >>, id |-> << >>]

\* Disk.__init__ with data and no type.
ParseDisk(data) ==
    LET Tracks(det, zones) ==
            parse_directory([layout |-> det.layout,
                             tracks |-> ParseTracks(data, det, zones),
                             directory |-> << >>,
                             name |-> << >>,
                             id |-> << >>])
        Sized(det) ==
            IF ~det.sized THEN Result(FALSE, NoDisk, "invalid disk image size")
            ELSE IF det.layout = ""
            THEN Result(FALSE, NoDisk, "unable to determine disk type")
            ELSE Tracks(det, Layouts[det.layout].zones)
    IN  Sized(Detect(DataLen(data)))

\* -------------------------------------------------------------- read_file

\* The while loop of read_file, at its test; seen as in ParseDirectoryLoop.
RECURSIVE ReadFileLoop(_, _, _, _, _)
ReadFileLoop(disk, track, sector, data, seen) ==
    IF track = 0 THEN [ok |-> TRUE, data |-> data, err |-> ""]
    ELSE IF <<track, sector>> \in seen
    THEN [ok |-> FALSE, data |-> data, err |-> "does not terminate"]
    ELSE IF track > num_tracks(disk)
    THEN [ok |-> FALSE, data |-> data, err |-> "IndexError"]
    ELSE IF ~valid_sector(disk.tracks[track], sector)
    THEN [ok |-> FALSE, data |-> data, err |-> "invalid sector"]
    ELSE IF ~is_ok(disk.tracks[track], sector)
    THEN [ok |-> FALSE, data |-> data, err |-> "read error"]
    ELSE IF read(disk.tracks[track], sector) = NoData
    THEN [ok |-> FALSE, data |-> data, err |-> "unable to read block"]
    ELSE LET block_data == Block(read(disk.tracks[track], sector))
             next_track == block_data[1]
             next_sector == block_data[2]
         IN  ReadFileLoop(disk, next_track, next_sector,
                          data \o (IF next_track = 0
                                   THEN Slice(block_data, 2, block_data[2] + 1)
                                   ELSE Slice(block_data, 2, BlockSize)),
                          seen \cup {<<track, sector>>})

\* read_file that takes the last entry of the name.
read_file_last(disk, name) ==
    LET Entry(entry) == ReadFileLoop(disk, entry.track, entry.sector, << >>, {})
        Found(found) ==
            IF found = {} THEN [ok |-> FALSE, data |-> << >>, err |-> "not found"]
            ELSE Entry(disk.directory[CHOOSE k \in found : \A j \in found : k >= j])
    IN  Found({k \in 1..Len(disk.directory) : disk.directory[k].name = name})

\* Disk.read_file
read_file(disk, name) ==
    LET Entry(entry) == ReadFileLoop(disk, entry.track, entry.sector, << >>, {})
        Found(found) ==
            IF found = {} THEN [ok |-> FALSE, data |-> << >>, err |-> "not found"]
            ELSE Entry(disk.directory[CHOOSE k \in found : \A j \in found : k <= j])
    IN  Found({k \in 1..Len(disk.directory) : disk.directory[k].name = name})

\* ---------------------------------------------------------- state machine

VARIABLES
    disk,     \* the Disk object the caller holds
    origin,   \* "built": Disk(type, name, id); "parsed": Disk(data=...)
    files,    \* the add_file calls that succeeded on disk, oldest first
    plain,    \* every call made on disk was add_file or add_del and succeeded
    raw,      \* the number of calls that named a sector of disk directly
    file,     \* what the last output() call wrote to its file
    image,    \* the Disk that wrote file, as it was when output() returned
    last      \* the last call, its arguments and its result

vars == <<disk, origin, files, plain, raw, file, image, last>>

\* Bounds of the model: the directory entries added to a disk, the calls
\* made on a disk that is also addressed sector by sector, and the entries
\* of a directory that runs over more than one block.
MaxEntries == 2
MaxRaw == 2
MaxDir == 9
MaxLong == 49

\* File names and volume names, as the bytes that str.encode("ascii")
\* gives: "A", "B", 16 and 17 letters.
NameA == <<65>>
NameB == <<66>>
Name16 == [i \in 1..16 |-> 64 + i]
Name17 == [i \in 1..17 |-> 64 + i]

\* File contents: len bytes that differ from one offset to the next.
FileData(len, seed) == [i \in 1..len |-> (seed + i) % 256]

FileInput(name, len, seed, type) ==
    [name |-> name, len |-> len, seed |-> seed, type |-> type]

\* Files of no byte, of one byte, of one full block, of two full blocks.
FileInputs ==
    { FileInput(NameA, 0, 0, "prg"), FileInput(NameA, 1, 7, "prg"),
      FileInput(NameB, 254, 0, "seq"), FileInput(NameA, 508, 160, "prg") }

\* Files of one block, of two blocks, and of 22 blocks: more than the
\* sectors of the track where the first file of a d64 or d71 disk starts.
AllocInputs ==
    { FileInput(NameB, 1, 7, "prg"), FileInput(NameA, 255, 3, "prg"),
      FileInput(NameA, 5400, 0, "prg") }

Call(op, ok, err, arg) == [op |-> op, ok |-> ok, err |-> err, arg |-> arg]

NoImage == [valid |-> FALSE, layout |-> "", name |-> << >>, id |-> << >>,
            directory |-> << >>, files |-> << >>, plain |-> FALSE, origin |-> ""]

\* Disk(type, name, id) for every layout of the catalog.
InitWith(names) ==
    /\ \E type \in {"d64", "d71", "d81"} : \E name \in names :
          disk = NewDisk(type, name, NameB).disk
    /\ origin = "built"
    /\ files = << >>
    /\ plain = TRUE
    /\ raw = 0
    /\ file = NoFile
    /\ image = NoImage
    /\ last = Call("init", TRUE, "", << >>)

Init == InitWith({<< >>, NameA, Name16})

\* The sum of blocks_free over the tracks.
RECURSIVE FreeIn(_, _, _)
FreeIn(d, lo, hi) ==
    IF lo > hi THEN 0
    ELSE IF lo = hi THEN d.tracks[lo].blocks_free
    ELSE FreeIn(d, lo, (lo + hi) \div 2) + FreeIn(d, ((lo + hi) \div 2) + 1, hi)

TotalFree(d) == FreeIn(d, 1, num_tracks(d))

\* The disk is being built: it came from Disk(type, name, id) and no
\* output() call on it has succeeded.
Building == origin = "built" /\ ~image.valid

\* disk.add_file(name, data, type)
AddFileOf(inputs, max) ==
    /\ Len(disk.directory) < max
    /\ \E in \in inputs :
          \E r \in {add_file(disk, in.name, FileData(in.len, in.seed), in.type)} :
              /\ disk' = r.disk
              /\ files' = IF r.ok
                          THEN Append(files, in @@ [index |-> Len(r.disk.directory)])
                          ELSE files
              /\ plain' = (plain /\ r.ok)
              /\ last' = Call("add_file", r.ok, r.err,
                              in @@ [chain |-> r.chain, calls |-> r.calls])
    /\ UNCHANGED <<origin, raw, file, image>>

\* disk.add_del(name)
AddDelOf(names, max) ==
    /\ Len(disk.directory) < max
    /\ \E name \in names :
          \E r \in {add_del(disk, name)} :
              /\ disk' = r.disk
              /\ plain' = (plain /\ r.ok)
              /\ last' = Call("add_del", r.ok, r.err, [name |-> name])
    /\ UNCHANGED <<origin, files, raw, file, image>>

\* disk.output(file) on a file that is empty before the call.
Output ==
    /\ \E r \in {output(disk)} :
           /\ disk' = r.disk
           /\ file' = r.file
           /\ image' = [valid |-> r.ok, layout |-> r.disk.layout,
                        name |-> r.disk.name, id |-> r.disk.id,
                        directory |-> r.disk.directory, files |-> files,
                        plain |-> plain, origin |-> origin]
           /\ last' = Call("output", r.ok, r.err, [placed |-> r.placed])
    /\ UNCHANGED <<origin, files, plain, raw>>

\* Disk(data=...) on the bytes of data; the caller holds the new Disk when
\* the constructor returns one, and the old one when it raises.
ParseOf(data, variant) ==
    \E r \in {ParseDisk(data)} :
        /\ disk' = IF r.ok THEN r.disk ELSE disk
        /\ origin' = IF r.ok THEN "parsed" ELSE origin
        /\ files' = IF r.ok THEN << >> ELSE files
        /\ plain' = IF r.ok THEN FALSE ELSE plain
        /\ raw' = IF r.ok THEN 0 ELSE raw
        /\ last' = Call("parse", r.ok, r.err,
                        [variant |-> variant, len |-> DataLen(data),
                         layout |-> r.disk.layout])
        /\ UNCHANGED <<file, image>>

\* The bytes written by a Disk that was built are ready to be parsed.
Written == image.valid /\ image.origin = "built" /\ origin = "built"

\* The life cycle of a disk: it is built, written, and the bytes written
\* are parsed into a new Disk.
AddFile == Building /\ AddFileOf(FileInputs, MaxEntries)
AddDel == Building /\ AddDelOf({NameB, Name17}, MaxEntries)
Parse == Written /\ ParseOf(file, "file")

Next == AddFile \/ AddDel \/ Output \/ Parse

Spec == Init /\ [][Next]_vars

\* ---------------------------------------------------------- long directory

\* Directories of up to MaxDir entries, which take more than one directory
\* block: del entries, and one file at any place among them.
\* The directory is filled before the first output() call on the disk.
Unwritten == origin = "built" /\ image = NoImage

DirAddFile ==
    Unwritten /\ files = << >> /\ AddFileOf({FileInput(NameA, 255, 7, "prg")}, MaxDir)
DirAddDel == Unwritten /\ AddDelOf({NameB}, MaxDir)

NextDir == DirAddFile \/ DirAddDel \/ Output \/ Parse

SpecDir == InitWith({NameA}) /\ [][NextDir]_vars

\* ------------------------------------------------------ calls on a sector

\* The sectors named in direct calls: sector 0 of the track below the
\* first directory track, where the first file starts, and the first
\* directory block.
FileSector(d) == <<Layout(d).directory_tracks[1] - 1, 0>>
RawSectors(d) == {FileSector(d), find_first_directory_block(d)}

\* Error codes: none, and a read error.
ErrorCodes == {0, 5}

\* A block of 256 bytes.
BlockData == [i \in 1..BlockSize |-> i % 256]

\* A call that names a sector is one of at most MaxRaw calls on the disk.
Sectorwise == Building /\ raw + Len(disk.directory) < MaxRaw

\* A call on the Track object disk.tracks[p[1]], for the sector p[2].
TrackCall(op, p, track, arg) ==
    /\ disk' = [disk EXCEPT !.tracks[p[1]] = track]
    /\ raw' = raw + 1
    /\ plain' = FALSE
    /\ last' = Call(op, TRUE, "", [track |-> p[1], sector |-> p[2]] @@ arg)
    /\ UNCHANGED <<origin, files, file, image>>

\* disk.tracks[t].mark_used(s)
MarkUsedOf(sectors) ==
    \E p \in sectors :
        TrackCall("mark_used", p, mark_used(disk.tracks[p[1]], p[2]), << >>)

MarkUsed == Sectorwise /\ MarkUsedOf({FileSector(disk)})

\* disk.tracks[t].mark_free(s)
MarkFree ==
    /\ Sectorwise
    /\ \E p \in {FileSector(disk)} :
          TrackCall("mark_free", p, mark_free(disk.tracks[p[1]], p[2]), << >>)

\* disk.tracks[t].set_error(s, error)
SetErrorOf(sectors, codes) ==
    \E p \in sectors : \E error \in codes :
        TrackCall("set_error", p, set_error(disk.tracks[p[1]], p[2], error),
                  [error |-> error])

SetError ==
    /\ Sectorwise
    /\ \/ SetErrorOf(RawSectors(disk), ErrorCodes \ {0})
       \/ SetErrorOf({FileSector(disk)}, {0})

\* disk.tracks[t].write(s, data, mark_used, error)
Write ==
    /\ Sectorwise
    /\ \E p \in {FileSector(disk)} : \E markUsed \in BOOLEAN : \E error \in ErrorCodes :
          TrackCall("write", p,
                    write(disk.tracks[p[1]], p[2], BlockData, markUsed, error),
                    [mark_used |-> markUsed, error |-> error])

\* disk.add_block(track, sector, data), with data of 256 and of 255 bytes.
AddBlockOf(targets) ==
    /\ \E p \in targets : \E len \in {BlockSize, BlockSize - 1} :
          \E r \in {add_block(disk, p[1], p[2], SubSeq(BlockData, 1, len))} :
              /\ disk' = r.disk
              /\ raw' = raw + 1
              /\ plain' = FALSE
              /\ last' = Call("add_block", r.ok, r.err,
                              [track |-> p[1], sector |-> p[2], len |-> len])
    /\ UNCHANGED <<origin, files, file, image>>

AddBlock == Sectorwise /\ AddBlockOf({FileSector(disk)})

\* add_file and add_del on a disk that is also addressed sector by sector.
TrackAddFile == Sectorwise /\ AddFileOf({FileInput(NameA, 255, 3, "prg")}, MaxEntries)
TrackAddDel == Sectorwise /\ AddDelOf({NameB}, MaxEntries)

NextTrack ==
    \/ MarkUsed \/ MarkFree \/ SetError \/ Write \/ AddBlock
    \/ TrackAddFile \/ TrackAddDel \/ Output \/ Parse

\* Disks addressed sector by sector, then written and parsed.
SpecTrack == InitWith({NameA}) /\ [][NextTrack]_vars

\* -------------------------------------------------------------- allocation

\* Sectors of the track where the first file starts, marked used before a
\* file is added.
AllocSectors(d) == {<<FileSector(d)[1], s>> : s \in {0, 1, 10}}

AllocMark == Sectorwise /\ MarkUsedOf(AllocSectors(disk))
AllocFile == Sectorwise /\ AddFileOf(AllocInputs, MaxEntries)

NextAlloc == AllocMark \/ AllocFile

\* Files added to disks of which some sectors are taken.
SpecAlloc == InitWith({NameA}) /\ [][NextAlloc]_vars

\* ---------------------------------------------------------------- detection

\* Byte streams handed to Disk(data=...): what output() wrote, as it is,
\* with a byte more or less, without its last block, with a plane of zero
\* error codes after it, twice over, and nothing.
Variants == {"file", "longer", "shorter", "blockless", "planed", "twice", "empty"}

Tampered(data, variant) ==
    CASE variant = "file" -> data
      [] variant = "longer" -> Data(data.blocks, data.tail \o <<0>>)
      [] variant = "shorter" ->
            IF data.tail # << >>
            THEN Data(data.blocks, SubSeq(data.tail, 1, Len(data.tail) - 1))
            ELSE Data(SubSeq(data.blocks, 1, Len(data.blocks) - 1),
                      SubSeq(Block(data.blocks[Len(data.blocks)]), 1, BlockSize - 1))
      [] variant = "blockless" ->
            Data(SubSeq(data.blocks, 1, Len(data.blocks) - 1), data.tail)
      [] variant = "planed" -> Data(data.blocks, data.tail \o Zeros(Len(data.blocks)))
      [] variant = "twice" ->
            IF data.tail = << >> THEN Data(data.blocks \o data.blocks, << >>)
            ELSE Data(data.blocks, data.tail \o data.tail)
      [] variant = "empty" -> NoFile

DetectAddFile ==
    Building /\ AddFileOf({FileInput(NameA, 255, 3, "prg"),
                           FileInput(NameB, 1, 7, "prg")}, MaxEntries)
DetectSetError == Sectorwise /\ SetErrorOf({FileSector(disk)}, ErrorCodes \ {0})
DetectParse == Written /\ \E variant \in Variants : ParseOf(Tampered(file, variant), variant)

NextDetect == DetectAddFile \/ DetectSetError \/ Output \/ DetectParse

\* Disks written, and the bytes parsed after they were tampered with.
SpecDetect == InitWith({NameA}) /\ [][NextDetect]_vars

\* --------------------------------------------------------------- error codes

\* Error codes of every size: set_error stores any integer, and
\* output_errors writes each code with to_bytes(1).
WideCodes == {5, 256}

\* The sectors that are given a code: the first sector of the disk, and the
\* sector where the first file starts.
CodedSectors(d) == {<<1, 0>>, FileSector(d)}

PlaneAddFile == Building /\ AddFileOf({FileInput(NameA, 1, 7, "prg")}, MaxEntries)
PlaneSetError == Sectorwise /\ SetErrorOf(CodedSectors(disk), WideCodes)

NextPlane == PlaneAddFile \/ PlaneSetError \/ Output

\* Disks with error codes of any size, written.
SpecPlane == InitWith({NameA}) /\ [][NextPlane]_vars

\* ------------------------------------------------------------------- links

\* data with the first two bytes of its block of number block, the link of
\* a directory block or of a file block, replaced by (track, sector).
Relinked(data, block, track, sector) ==
    Data([data.blocks EXCEPT ![block + 1] = <<track, sector>> \o SubSeq(Block(@), 3, BlockSize)],
         data.tail)

\* Disk(data=...) on what output() wrote, with the link of the first
\* directory block or of the first block of the first file pointing at the
\* block itself, or at a track that the layout does not have.
LinkParse ==
    /\ Written
    /\ \E p \in RawSectors(disk) : \E to \in {p, <<num_tracks(disk) + 1, 0>>} :
          ParseOf(Relinked(file, TrackStart(Layout(disk).zones, p[1]) + p[2],
                           to[1], to[2]),
                  "relinked")

NextLink == DetectAddFile \/ Output \/ LinkParse

\* Images whose chains of blocks were linked by someone else.
SpecLink == InitWith({NameA}) /\ [][NextLink]_vars

\* ---------------------------------------------------------------- full disks

\* What add_block(t, sector, BlockData), called for every sector of a new
\* track but those of keep, leaves of the track: each call finds the sector
\* free, marks it used and writes it with the error code 0.
FillTrack(track, t, keep) ==
    [sectors |-> [s \in 1..length(track) |->
                     IF <<t, s - 1>> \in keep THEN track.sectors[s] ELSE BlockData],
     errors |-> [s \in 1..length(track) |->
                    IF <<t, s - 1>> \in keep THEN track.errors[s] ELSE 0],
     free |-> [s \in 1..length(track) |-> <<t, s - 1>> \in keep],
     blocks_free |-> Cardinality({s \in 1..length(track) : <<t, s - 1>> \in keep})]

\* The sectors left free on a disk that is otherwise filled: none, sectors
\* at one end of the disk, at both ends, next to the directory track on
\* both sides of it, on the directory track, and on the last directory
\* track.
KeepSets(d) ==
    LET first == Layout(d).directory_tracks[1]
        last_track == num_tracks(d)
        second == Layout(d).directory_tracks[Len(Layout(d).directory_tracks)]
    IN  { {}, {<<1, 0>>}, {<<1, 0>>, <<1, 1>>}, {<<1, 0>>, <<last_track, 0>>},
          {<<first - 1, 5>>, <<first + 1, 0>>, <<1, 3>>},
          {<<first, 5>>}, {<<second, 1>>, <<last_track, 2>>} }

\* The caller fills a new disk with add_block calls, but for a few sectors.
FillDiskOf(keeps) ==
    /\ Building /\ raw = 0 /\ disk.directory = << >>
    /\ \E keep \in keeps :
          /\ disk' = [disk EXCEPT !.tracks =
                          [t \in 1..num_tracks(disk) |-> FillTrack(disk.tracks[t], t, keep)]]
          /\ raw' = raw + 1
          /\ plain' = FALSE
          /\ last' = Call("add_block", TRUE, "", [keep |-> keep])
    /\ UNCHANGED <<origin, files, file, image>>

FillDisk == FillDiskOf(KeepSets(disk))

\* Files of one, two and three blocks.
FullAddFile ==
    Building /\ AddFileOf({FileInput(NameA, 1, 7, "prg"), FileInput(NameA, 255, 3, "prg"),
                           FileInput(NameB, 509, 9, "prg")}, MaxEntries)

NextFull == FillDisk \/ FullAddFile

\* Files added to disks that are full or nearly so.
SpecFull == InitWith({NameA}) /\ [][NextFull]_vars

\* ------------------------------------------------------------------ reading

\* The first two blocks of the first file of a new disk.
ReadSectors(d) == {<<FileSector(d)[1], 0>>, <<FileSector(d)[1], Layout(d).interleave>>}

\* Two files of one name, of two blocks and of one, and one of three blocks.
ReadAddFile ==
    Building /\ AddFileOf({FileInput(NameA, 255, 3, "prg"), FileInput(NameA, 1, 7, "prg"),
                           FileInput(NameB, 509, 9, "prg")}, MaxEntries)

ReadSetError == Sectorwise /\ SetErrorOf(ReadSectors(disk), ErrorCodes \ {0})

\* disk.read_file(name)
ReadFile ==
    /\ \E name \in {NameA, NameB} :
          \E r \in {read_file(disk, name)} :
              last' = Call("read_file", r.ok, r.err, [name |-> name, data |-> r.data])
    /\ UNCHANGED <<disk, origin, files, plain, raw, file, image>>

NextRead == ReadAddFile \/ ReadSetError \/ ReadFile

\* Files read from disks as they are built.
SpecRead == InitWith({NameA}) /\ [][NextRead]_vars

\* ------------------------------------------------------------------- blocks

\* Addresses for add_block: tracks and sectors off the disk, the block where
\* the first file starts, and blocks of the first and of the last track.
BlockTargets(d) ==
    { <<0, 0>>, <<num_tracks(d) + 1, 0>>,
      <<FileSector(d)[1], -1>>, <<FileSector(d)[1], length(d.tracks[FileSector(d)[1]])>>,
      FileSector(d), <<1, 1>>, <<num_tracks(d), length(d.tracks[num_tracks(d)]) - 1>> }

BlockAddBlock == Sectorwise /\ AddBlockOf(BlockTargets(disk))
BlockAddFile == Sectorwise /\ AddFileOf({FileInput(NameA, 255, 3, "prg")}, MaxEntries)

NextBlock == BlockAddBlock \/ BlockAddFile \/ MarkUsed \/ SetError

\* Blocks added at addresses on the disk and off it, free and used.
SpecBlock == InitWith({NameA}) /\ [][NextBlock]_vars

\* ---------------------------------------------------------------- the scan

\* Sectors to start the scan of a track at: on the track, at its length,
\* and past it.
ScanStarts(track) ==
    { 0, 5, length(track), length(track) + 1, length(track) + 4, 2 * length(track) + 3 }

ScanMarkUsed == Sectorwise /\ MarkUsedOf({<<1, 0>>, <<1, 4>>, <<1, 5>>})

\* disk.tracks[1].next_free(sector, ignore_sector)
NextFree ==
    /\ Sectorwise
    /\ \E sector \in ScanStarts(disk.tracks[1]) : \E ignore_sector \in {NONE, 0, 1} :
          last' = Call("next_free", TRUE, "",
                       [track |-> 1, sector |-> sector, ignore_sector |-> ignore_sector,
                        result |-> next_free(disk.tracks[1], sector, ignore_sector)])
    /\ raw' = raw + 1
    /\ UNCHANGED <<disk, origin, files, plain, file, image>>

NextScan == FillDisk \/ ScanMarkUsed \/ NextFree

\* Tracks that are free, partly used and full, scanned for a free sector.
SpecScan == InitWith({NameA}) /\ [][NextScan]_vars

\* ------------------------------------------------------------ directory pages

\* The sectors that encode_bam writes.
BamSectors(d) ==
    IF is_double_sided(d)
    THEN {<<Layout(d).directory_tracks[1], 0>>, <<Layout(d).directory_tracks[2], 0>>}
    ELSE IF num_tracks(d) > 70
    THEN {<<Layout(d).directory_tracks[1], s>> : s \in 0..2}
    ELSE {<<Layout(d).directory_tracks[1], 0>>}

\* Sectors left free for the directory on a disk that is full besides: the
\* first directory block and one more block, on the first directory track
\* with the sectors of encode_bam, or on the last directory track without
\* them.
PageKeeps(d) ==
    { BamSectors(d) \cup {find_first_directory_block(d), <<Layout(d).directory_tracks[1], 6>>},
      {find_first_directory_block(d),
       <<Layout(d).directory_tracks[Len(Layout(d).directory_tracks)], 6>>} }

PageFill == FillDiskOf(PageKeeps(disk))

\* add_del, with a name for every place in the directory: "A", "B", ...
PageAddDel == Unwritten /\ AddDelOf({<<65 + Len(disk.directory)>>}, MaxDir)

NextPage == PageFill \/ PageAddDel \/ Output

\* Directories of one and two blocks written to disks with room for them
\* in different places.
SpecPage == InitWith({NameA}) /\ [][NextPage]_vars

\* ------------------------------------------------------------------- entries

\* disk.directory.append(Disk.DirectoryEntry(name, type, 0, 0, 0, closed,
\* locked)), as add_del does it, with every type and flag; one entry.
EntryAppend ==
    /\ Unwritten /\ disk.directory = << >>
    /\ \E type \in DOMAIN file_types : \E closed \in BOOLEAN : \E locked \in BOOLEAN :
          /\ disk' = [disk EXCEPT !.directory =
                          Append(@, DirectoryEntry(NameA, type, 0, 0, 0, closed, locked))]
          /\ last' = Call("append", TRUE, "",
                          [type |-> type, closed |-> closed, locked |-> locked])
    /\ plain' = FALSE
    /\ UNCHANGED <<origin, files, raw, file, image>>

NextEntry == EntryAppend \/ Output \/ Parse

\* Entries of every type, closed or not, locked or not, written and parsed.
SpecEntry == InitWith({NameA}) /\ [][NextEntry]_vars

\* ------------------------------------------------------- the longest directory

\* Directories of up to MaxLong del entries: seven directory blocks.
LongAddDel == Unwritten /\ AddDelOf({NameB}, MaxLong)

NextLong == LongAddDel \/ Output

SpecLong == InitWith({NameA}) /\ [][NextLong]_vars

\* ------------------------------------------------------------ shared blocks

\* Sectors handed to add_block: where the next file starts, the first
\* directory block, the first sector of encode_bam, and the first block of
\* every file on the disk.
ShareTargets(d) ==
    {FileSector(d), find_first_directory_block(d), <<Layout(d).directory_tracks[1], 0>>}
        \cup {<<d.directory[k].track, d.directory[k].sector>> : k \in 1..Len(d.directory)}

ShareAddBlock == Unwritten /\ raw < MaxRaw /\ AddBlockOf(ShareTargets(disk))
ShareAddFile ==
    Unwritten /\ AddFileOf({FileInput(NameA, 255, 3, "prg"), FileInput(NameB, 1, 5, "prg")},
                           MaxEntries)
ShareAddDel == Unwritten /\ AddDelOf({NameB}, MaxEntries)

NextShare == ShareAddBlock \/ ShareAddFile \/ ShareAddDel \/ Output

\* Files, blocks and del entries added in any order, then output().
SpecShare == InitWith({NameA}) /\ [][NextShare]_vars

\* ---------------------------------------------------------------- properties

\* Disk(data=...) returned a Disk: the caller holds it, and image is the
\* Disk whose output() wrote the bytes.
Parsed == last.op = "parse" /\ last.ok

\* The bytes handed to add_file by the call in.
Content(in) == FileData(in.len, in.seed)

\* The Disk that was written was built with add_file calls alone, and every
\* one of them succeeded.
FilesOnly == image.plain /\ Len(image.directory) = Len(image.files)

\* C1: when a disk was built with add_file calls that all succeeded, then
\* written and parsed, read_file(name) on the parsed Disk returns, for every
\* file added, the bytes that were handed to add_file.
C1_ContentRoundTrip ==
    (Parsed /\ FilesOnly) =>
        \A k \in 1..Len(image.files) :
            \E r \in {read_file(disk, image.files[k].name)} :
                r.ok /\ r.data = Content(image.files[k])

\* Two directory entries agree on what the listing shows.
SameEntry(a, b) ==
    /\ a.name = b.name
    /\ a.type = b.type
    /\ a.track = b.track
    /\ a.sector = b.sector
    /\ a.blocks = b.blocks

\* C2: after build, output and parse, the directory of the parsed Disk has
\* the entries of the directory of the Disk that was written, in the same
\* order, each with the same name, type, start track and sector, and block
\* count.
C2_DirectoryRoundTrip ==
    Parsed =>
        /\ Len(disk.directory) = Len(image.directory)
        /\ \A k \in 1..Len(image.directory) :
              SameEntry(disk.directory[k], image.directory[k])

\* A parsed directory of more than one block, with a file after a del entry
\* and a del entry in the second block.
C2_LongDirectoryParsed ==
    /\ Parsed
    /\ Len(image.directory) > EntriesPerBlock
    /\ \E j, k \in 1..Len(image.directory) :
          /\ j < k
          /\ image.directory[j].type = "del" /\ image.directory[k].type = "prg"
    /\ image.directory[Len(image.directory)].type = "del"

\* The number of sectors of a track whose free flag is set.
FreeCount(track) == Cardinality({s \in 1..length(track) : track.free[s]})

\* blocks_free is the number of free flags set, on every track of d.
Counted(d) == \A t \in 1..num_tracks(d) : d.tracks[t].blocks_free = FreeCount(d.tracks[t])

\* What a mark_used or mark_free call on sector s, which leaves the flag at
\* flag, does to the track: the count moves by one exactly when the flag
\* changes, and a second call changes nothing.
Marked(before, after, s, flag) ==
    /\ after.free = [before.free EXCEPT ![s + 1] = flag]
    /\ after.blocks_free =
          IF before.free[s + 1] = flag THEN before.blocks_free
          ELSE IF flag THEN before.blocks_free + 1 ELSE before.blocks_free - 1
    /\ (IF flag THEN mark_free(after, s) ELSE mark_used(after, s)) = after

\* C3: on every track, after any sequence of mark_used, mark_free, write,
\* add_block, add_file, add_del, output and parse, blocks_free is the number
\* of sectors whose free flag is set; mark_used and mark_free change
\* blocks_free only when the flag changes, so that repeating one is without
\* effect.
C3_Capacity ==
    /\ [] Counted(disk)
    /\ [][ /\ last'.op = "mark_used" =>
                Marked(disk.tracks[last'.arg.track], disk'.tracks[last'.arg.track],
                       last'.arg.sector, FALSE)
           /\ last'.op = "mark_free" =>
                Marked(disk.tracks[last'.arg.track], disk'.tracks[last'.arg.track],
                       last'.arg.sector, TRUE) ]_vars

\* mark_used was called on a sector that an earlier call had marked used.
C3_MarkedTwice ==
    /\ last.op = "mark_used"
    /\ raw = 2
    /\ disk.tracks[last.arg.track].blocks_free = length(disk.tracks[last.arg.track]) - 1
    /\ disk.directory = << >>

\* No address occurs twice in seq.
Distinct(seq) == \A i, j \in 1..Len(seq) : i # j => seq[i] # seq[j]

\* The number of blocks of a file of len bytes.
BlocksOf(len) == (len + PayloadSize - 1) \div PayloadSize

\* C4: the blocks that add_file writes for one file lie at pairwise
\* distinct (track, sector) addresses, as many as the file has blocks, and
\* find_next_block(track, sector) never returns (track, sector).
C4_NonCollision ==
    last.op = "add_file" =>
        /\ Distinct(last.arg.chain)
        /\ \A k \in 1..Len(last.arg.calls) :
              <<last.arg.calls[k][1], last.arg.calls[k][2]>>
                  # <<last.arg.calls[k][3], last.arg.calls[k][4]>>
        /\ last.ok => Len(last.arg.chain) = BlocksOf(last.arg.len)

\* A file of more blocks than its first track has free sectors: the search
\* went round the track, past the sector it started from, and on to another
\* track.
C4_ChainLeavesTrack ==
    /\ last.op = "add_file" /\ last.ok
    /\ Len(last.arg.chain) = BlocksOf(5400)
    /\ \E k \in 1..Len(last.arg.chain) : last.arg.chain[k][1] # last.arg.chain[1][1]

\* A disk as Disk(type, name, id) returns it.
Fresh(d) ==
    /\ d.directory = << >>
    /\ \A t \in 1..num_tracks(d) : d.tracks[t] = Track(length(d.tracks[t]))

\* C5: output() on a freshly built disk with an empty directory succeeds
\* and writes 256 * layout.sectors bytes, and parsing these bytes detects
\* the layout of the disk.
C5_FreshOutput ==
    [][ (origin = "built" /\ Fresh(disk) /\ last'.op = "output") =>
            /\ last'.ok
            /\ DataLen(file') = BlockSize * LayoutSectors(Layout(disk))
            /\ Detect(DataLen(file')).layout = disk.layout ]_vars

\* C6: add_file with data of no byte succeeds, takes one block (the sum of
\* blocks_free over the tracks drops by one) and appends one directory
\* entry.
C6_EmptyFile ==
    [][ (last'.op = "add_file" /\ last'.arg.len = 0) =>
            /\ last'.ok
            /\ TotalFree(disk') = TotalFree(disk) - 1
            /\ Len(disk'.directory) = Len(disk.directory) + 1 ]_vars

\* The entries of d before the last one do not bear its name, so that
\* read_file(name) reads the last entry.
LastNamed(d) ==
    \A k \in 1..(Len(d.directory) - 1) :
        d.directory[k].name # d.directory[Len(d.directory)].name

\* What add_file did with k full blocks of data: k blocks taken, the last
\* one with the header (0, 255), and the bytes read back in full.
FullBlocks(before, after, in, k) ==
    /\ Len(in.chain) = k
    /\ TotalFree(after) = TotalFree(before) - k
    /\ Len(after.directory) = Len(before.directory) + 1
    /\ after.directory[Len(after.directory)].blocks = k
    /\ <<after.directory[Len(after.directory)].track,
         after.directory[Len(after.directory)].sector>> = in.chain[1]
    /\ \E block \in {read(after.tracks[in.chain[k][1]], in.chain[k][2])} :
          block[1] = 0 /\ block[2] = PayloadSize + 1
    /\ \E r \in {ReadFileLoop(after, in.chain[1][1], in.chain[1][2], << >>, {})} :
          r.ok /\ r.data = Content(in)
    /\ LastNamed(after) =>
          \E r \in {read_file(after, in.name)} : r.ok /\ r.data = Content(in)

\* C7: for data of 254 * k bytes with k >= 1, add_file takes k blocks and
\* the header of the last block is (0, 255), a declared length of 254 and
\* not 0, so that read_file returns the 254 * k bytes.
C7_FullBlockFile ==
    [][ (last'.op = "add_file" /\ last'.arg.len > 0
             /\ last'.arg.len % PayloadSize = 0) =>
            /\ last'.ok
            /\ FullBlocks(disk, disk', last'.arg, last'.arg.len \div PayloadSize) ]_vars

\* A file of two full blocks was added.
C7_TwoFullBlocks ==
    /\ last.op = "add_file" /\ last.ok
    /\ last.arg.len = 2 * PayloadSize
    /\ Len(last.arg.chain) = 2

\* The sectors of d that hold a nonzero error code.
Flawed(d) ==
    {p \in UNION {{<<t, s>> : s \in 0..(length(d.tracks[t]) - 1)} :
                     t \in 1..num_tracks(d)} :
        get_error(d.tracks[p[1]], p[2]) # 0}

\* The sectors of before that hold a nonzero error code and that the
\* output() call leading to after did not write.
Kept(before, after) ==
    {p \in Flawed(before) :
        after.tracks[p[1]].sectors[p[2] + 1] = before.tracks[p[1]].sectors[p[2] + 1]}

\* What a successful output() wrote: the sectors, and after them one byte
\* per sector, in the order of the sectors, with the code of the sector,
\* when a sector that was not rewritten holds a nonzero code; the sectors
\* alone when no sector holds one.
Emitted(before, after, data, sectors) ==
    /\ \A p \in Kept(before, after) :
          get_error(after.tracks[p[1]], p[2]) = get_error(before.tracks[p[1]], p[2])
    /\ Kept(before, after) # {} =>
          /\ DataLen(data) = (BlockSize + 1) * sectors
          /\ \A t \in 1..num_tracks(after) :
                \A s \in 0..(length(after.tracks[t]) - 1) :
                    DataAt(data, BlockSize * sectors
                                 + TrackStart(Layout(after).zones, t) + s)
                        = get_error(after.tracks[t], s)
    /\ Flawed(before) = {} => DataLen(data) = BlockSize * sectors

\* C8: while a sector holds a nonzero error code, Track.read of it fails
\* and has_errors() is true; a successful output() writes, after the
\* sectors, one byte per sector in the same order with the code of each
\* sector, 257 * layout.sectors bytes in all, when a sector that it did not
\* rewrite holds a nonzero code, and 256 * layout.sectors bytes when no
\* sector holds one.
C8_ErrorPropagation ==
    /\ [] (\A p \in Flawed(disk) :
              ~read_ok(disk.tracks[p[1]], p[2]) /\ has_errors(disk))
    /\ [][ (last'.op = "output" /\ last'.ok) =>
              Emitted(disk, disk', file', LayoutSectors(Layout(disk))) ]_vars

\* output() succeeded on a disk with an error code on a sector of a file,
\* and wrote the error plane.
C8_PlaneWritten ==
    /\ last.op = "output" /\ last.ok
    /\ origin = "built"
    /\ get_error(disk.tracks[FileSector(disk)[1]], FileSector(disk)[2]) # 0
    /\ Len(file.tail) = LayoutSectors(Layout(disk))

\* C9: parsing the output of a disk yields a Disk whose name is the volume
\* name the disk was given, for every layout and every name of at most 16
\* bytes.
C9_NameRoundTrip == Parsed => disk.name = image.name

\* The layouts that match a buffer of len bytes: 256 * S, or 257 * S with
\* len not divisible by 256, where S is the sector total of the layout.
Fits(len) ==
    {k \in 1..Len(LayoutNames) :
        \/ len = BlockSize * LayoutSectors(Layouts[LayoutNames[k]])
        \/ /\ len = (BlockSize + 1) * LayoutSectors(Layouts[LayoutNames[k]])
           /\ len % BlockSize # 0}

UnknownFormat == {"invalid disk image size", "unable to determine disk type"}

\* The Disk d has the geometry of layout, and the error codes of the plane
\* that follows the sectors in data when data holds one.
Geometry(d, layout, data) ==
    /\ d.layout = layout
    /\ num_tracks(d) = LayoutTracks(Layouts[layout])
    /\ \A t \in 1..num_tracks(d) :
          /\ length(d.tracks[t]) = TrackLengths(Layouts[layout].zones)[t]
          /\ \A s \in 0..(length(d.tracks[t]) - 1) :
                get_error(d.tracks[t], s) =
                    IF DataLen(data) = BlockSize * LayoutSectors(Layouts[layout])
                    THEN 0
                    ELSE DataAt(data, BlockSize * LayoutSectors(Layouts[layout])
                                      + TrackStart(Layouts[layout].zones, t) + s)

\* C10: Disk(data=...) selects a layout exactly when the length of data is
\* 256 * S, or 257 * S and not divisible by 256, for the sector total S of a
\* layout of the catalog; the Disk then has the tracks of the layout, with
\* the sector counts of its zones in order, and error codes taken from data
\* only in the 257 case.  Any other length fails with an unknown-format
\* error and gives no Disk.
C10_Detection ==
    [][ last'.op = "parse" =>
          /\ (Fits(last'.arg.len) = {}) <=> (last'.err \in UnknownFormat)
          /\ Fits(last'.arg.len) = {} => ~last'.ok /\ disk' = disk /\ origin' = origin
          /\ Fits(last'.arg.len) # {} =>
                /\ last'.ok
                /\ \E data \in {Tampered(file, last'.arg.variant)} :
                      \A k \in Fits(last'.arg.len) :
                          Geometry(disk', LayoutNames[k], data) ]_vars

\* A buffer of 257 * S bytes was parsed, and the Disk has the error code of
\* its plane.
C10_PlaneParsed ==
    /\ Parsed
    /\ last.arg.variant = "file"
    /\ last.arg.len = (BlockSize + 1) * LayoutSectors(Layout(disk))
    /\ get_error(disk.tracks[FileSector(disk)[1]], FileSector(disk)[2]) # 0

\* C11: output() has no partial success: a call either writes the whole
\* byte stream to the file (every sector, and the whole error plane when a
\* sector has a nonzero code), or fails with nothing written to the file.
C11_AllOrNothing ==
    [][ last'.op = "output" =>
          \/ /\ last'.ok
             /\ Len(file'.blocks) = LayoutSectors(Layout(disk))
             /\ Len(file'.tail) =
                   IF has_errors(disk') THEN LayoutSectors(Layout(disk)) ELSE 0
          \/ /\ ~last'.ok
             /\ file' = NoFile ]_vars

\* C12: every operation ends, by returning or by failing: parsing a buffer
\* of a valid length and read_file take a number of steps bounded by the
\* geometry of the disk, whatever links the directory chain and the file
\* chains of the image hold.
C12_Terminates ==
    /\ last.op = "parse" => last.err # "does not terminate"
    /\ Parsed =>
          \A k \in 1..Len(disk.directory) :
              read_file(disk, disk.directory[k].name).err # "does not terminate"

\* The blocks of d reached by following the links from (track, sector),
\* that block included, besides those of seen.
RECURSIVE Chain(_, _, _, _)
Chain(d, track, sector, seen) ==
    IF track < 1 \/ track > num_tracks(d) THEN seen
    ELSE IF sector < 0 \/ ~valid_sector(d.tracks[track], sector) THEN seen
    ELSE IF <<track, sector>> \in seen THEN seen
    ELSE IF read(d.tracks[track], sector) = NoData THEN seen \cup {<<track, sector>>}
    ELSE Chain(d, Block(read(d.tracks[track], sector))[1],
               Block(read(d.tracks[track], sector))[2], seen \cup {<<track, sector>>})

\* C13: in every state of a Disk, built or parsed from a buffer, every
\* directory entry whose track is not 0 names a track in 1..num_tracks, and
\* every block reached by following the chain from the start of the entry is
\* marked used.
C13_ChainsUsed ==
    \A k \in 1..Len(disk.directory) :
        disk.directory[k].track # 0 =>
            /\ disk.directory[k].track \in 1..num_tracks(disk)
            /\ \A p \in Chain(disk, disk.directory[k].track, disk.directory[k].sector, {}) :
                  ~is_free(disk.tracks[p[1]], p[2])

\* The free sectors of d on the tracks other than the first directory
\* track.
FreeOutside(d) ==
    {p \in UNION {{<<t, s>> : s \in 0..(length(d.tracks[t]) - 1)} :
                     t \in 1..num_tracks(d) \ {Layout(d).directory_tracks[1]}} :
        is_free(d.tracks[p[1]], p[2])}

\* C14: add_file fails for lack of space only when there is none: on a
\* built disk with at least as many free sectors, outside the first
\* directory track, as the data has chunks of 254 bytes (at least one),
\* add_file succeeds; and find_next_block gives up only when no track on
\* either side of the directory track has a free sector but the one it
\* was called for.
C14_FailsOnlyWhenFull ==
    [][ (last'.op = "add_file" /\ last'.arg.len > 0) =>
          /\ Cardinality(FreeOutside(disk)) >= BlocksOf(last'.arg.len) => last'.ok
          /\ last'.err = "disk full" =>
                \E call \in {last'.arg.calls[Len(last'.arg.calls)]} :
                    /\ call[3] = NONE
                    /\ FreeOutside(disk') \subseteq {<<call[1], call[2]>>} ]_vars

\* A file whose blocks lie at both ends of a disk that was full but for
\* them: the search went to one end, turned, and went to the other.
C14_BothEndsUsed ==
    /\ last.op = "add_file" /\ last.ok
    /\ FreeOutside(disk) = {}
    /\ \E j, k \in 1..Len(last.arg.chain) :
          /\ last.arg.chain[j][1] = 1
          /\ last.arg.chain[k][1] = num_tracks(disk)

\* The addresses of the blocks of d that following the links from
\* (track, sector) comes to, in this order, up to the terminal block, or up
\* to the first address that is not of a block, or comes twice.
RECURSIVE Blocks(_, _, _, _)
Blocks(d, track, sector, seen) ==
    IF track < 1 \/ track > num_tracks(d) THEN << >>
    ELSE IF sector < 0 \/ ~valid_sector(d.tracks[track], sector) THEN << >>
    ELSE IF <<track, sector>> \in seen THEN << >>
    ELSE IF read(d.tracks[track], sector) = NoData THEN <<<<track, sector>>>>
    ELSE <<<<track, sector>>>>
         \o Blocks(d, Block(read(d.tracks[track], sector))[1],
                   Block(read(d.tracks[track], sector))[2], seen \cup {<<track, sector>>})

\* The 0-based byte i of the block of d at the address p.
ByteAt(d, p, i) == Block(read(d.tracks[p[1]], p[2]))[i + 1]

\* C15: read_file(name) fails when no directory entry has the name, and
\* when a block of the chain from the start of the first entry of the name
\* has an error code other than 0; when it returns, the data are bytes
\* 2..255 of every block of that chain but the last, then bytes 2..n of the
\* last, whose header is (0, n); in every case the tracks and the directory
\* are as before the call.
C15_ReadFile ==
    [][ last'.op = "read_file" =>
          LET found == {k \in 1..Len(disk.directory) :
                            disk.directory[k].name = last'.arg.name}
              first == CHOOSE k \in found : \A j \in found : k <= j
              chain == Blocks(disk, disk.directory[first].track,
                              disk.directory[first].sector, {})
              data == last'.arg.data
              n == Len(chain)
          IN  /\ disk'.tracks = disk.tracks /\ disk'.directory = disk.directory
              /\ found = {} => ~last'.ok
              /\ found # {} =>
                    /\ (\E i \in 1..n : get_error(disk.tracks[chain[i][1]], chain[i][2]) # 0)
                          => ~last'.ok
                    /\ (last'.ok /\ n = 0) => data = << >>
                    /\ (last'.ok /\ n > 0) =>
                          /\ ByteAt(disk, chain[n], 0) = 0
                          /\ Len(data) = PayloadSize * (n - 1)
                                         + (IF ByteAt(disk, chain[n], 1) >= 2
                                            THEN ByteAt(disk, chain[n], 1) - 1 ELSE 0)
                          /\ \A i \in 1..Len(data) :
                                data[i] = ByteAt(disk, chain[((i - 1) \div PayloadSize) + 1],
                                                 2 + ((i - 1) % PayloadSize)) ]_vars

\* The first of two files of one name is read.
C15_FirstOfTwoRead ==
    /\ last.op = "read_file" /\ last.ok
    /\ Len(disk.directory) = 2
    /\ disk.directory[1].name = last.arg.name
    /\ disk.directory[2].name = last.arg.name
    /\ Len(last.arg.data) = 255

\* C16: add_block(track, sector, data) fails when the track is not one of
\* 1..num_tracks, when the sector is not one of the track, when data is not
\* of 256 bytes, and when the sector is used; when it fails the tracks and
\* the directory are as before; when it succeeds the sector is used and
\* holds data, the directory is as before, and every other sector keeps its
\* payload, its free flag and its error code.
C16_AddBlock ==
    [][ last'.op = "add_block" =>
          LET t == last'.arg.track
              s == last'.arg.sector
              on_disk == /\ t \in 1..num_tracks(disk)
                         /\ s \in 0..(length(disk.tracks[t]) - 1)
          IN  /\ ~on_disk => ~last'.ok
              /\ last'.arg.len # 256 => ~last'.ok
              /\ (on_disk /\ ~disk.tracks[t].free[s + 1]) => ~last'.ok
              /\ ~last'.ok => disk'.tracks = disk.tracks /\ disk'.directory = disk.directory
              /\ last'.ok =>
                    /\ ~disk'.tracks[t].free[s + 1]
                    /\ disk'.tracks[t].sectors[s + 1] = SubSeq(BlockData, 1, last'.arg.len)
                    /\ disk'.directory = disk.directory
                    /\ \A u \in 1..num_tracks(disk) :
                          \A v \in 1..length(disk.tracks[u]) :
                              <<u, v - 1>> # <<t, s>> =>
                                  /\ disk'.tracks[u].sectors[v] = disk.tracks[u].sectors[v]
                                  /\ disk'.tracks[u].free[v] = disk.tracks[u].free[v]
                                  /\ disk'.tracks[u].errors[v] = disk.tracks[u].errors[v] ]_vars

\* add_block has failed on a sector that was used.
C16_UsedTargetRefused ==
    /\ last.op = "add_block" /\ ~last.ok
    /\ last.arg.len = 256
    /\ last.arg.track \in 1..num_tracks(disk)
    /\ last.arg.sector \in 0..(length(disk.tracks[last.arg.track]) - 1)
    /\ ~disk.tracks[last.arg.track].free[last.arg.sector + 1]

\* The sectors of track that are free and are not ignore_sector.
Eligible(track, ignore_sector) ==
    {s \in 0..(length(track) - 1) : track.free[s + 1] /\ s # ignore_sector}

\* The first sector of eligible in the circular order of the sectors of
\* track that begins at begin; NONE when there is none.
FirstFrom(track, begin, eligible) ==
    IF eligible = {} THEN NONE
    ELSE CHOOSE s \in eligible :
            \A u \in eligible :
                (s - begin + length(track)) % length(track)
                    <= (u - begin + length(track)) % length(track)

\* C17, as stated: next_free(start, ignore_sector) returns the first sector
\* that is free and is not ignore_sector, in the circular order beginning at
\* start mod length, and at length - 1 when start = length; None when there
\* is no such sector.
C17_ScanFromStartModLength ==
    last.op = "next_free" =>
        LET track == disk.tracks[last.arg.track]
            start == last.arg.sector
        IN  last.arg.result =
                FirstFrom(track,
                          IF start = length(track) THEN length(track) - 1
                          ELSE start % length(track),
                          Eligible(track, last.arg.ignore_sector))

\* C17, amended: next_free(start, ignore_sector) returns the first sector
\* that is free and is not ignore_sector, in the circular order beginning at
\* start when start < length, and when start >= length at
\* (start mod length) - 1, or at 0 when start mod length is 0; it returns
\* None exactly when the track has no free sector other than ignore_sector.
C17_ScanFromWrappedStart ==
    last.op = "next_free" =>
        LET track == disk.tracks[last.arg.track]
            start == last.arg.sector
            wrapped == start % length(track)
        IN  /\ last.arg.result =
                    FirstFrom(track,
                              IF start < length(track) THEN start
                              ELSE IF wrapped > 0 THEN wrapped - 1 ELSE 0,
                              Eligible(track, last.arg.ignore_sector))
            /\ last.arg.result = NONE <=> Eligible(track, last.arg.ignore_sector) = {}

\* A scan that starts past the end of a track with used sectors finds a
\* sector.
C17_WrappedScanFinds ==
    /\ last.op = "next_free"
    /\ last.arg.sector > length(disk.tracks[last.arg.track])
    /\ last.arg.result # NONE
    /\ \E s \in 1..length(disk.tracks[last.arg.track]) :
          ~disk.tracks[last.arg.track].free[s]

\* The bit of the sector with 0-based index i in what encode_bam appends
\* for track: the mask is an integer in which the first sector is the most
\* significant of length bits, written least significant byte first after
\* the count.
MaskBit(track, encoded, i) ==
    (encoded[2 + ((length(track) - 1 - i) \div 8)] \div (2 ^ ((length(track) - 1 - i) % 8))) % 2

\* C18: in every state of every Track, encode_bam appends blocks_free, then
\* a mask in which the bit of sector i is 1 exactly when free[i] is true.
C18_MaskMirrorsFree ==
    \A t \in 1..num_tracks(disk) :
        LET track == disk.tracks[t]
            encoded == track_encode_bam(track, << >>, (length(track) + 7) \div 8)
        IN  /\ encoded[1] = track.blocks_free
            /\ Len(encoded) = 1 + ((length(track) + 7) \div 8)
            /\ \A i \in 0..(length(track) - 1) :
                  MaskBit(track, encoded, i) = 1 <=> track.free[i + 1]

\* The sectors of d that are used.
UsedSectors(d) ==
    {p \in UNION {{<<t, s>> : s \in 0..(length(d.tracks[t]) - 1)} : t \in 1..num_tracks(d)} :
        ~d.tracks[p[1]].free[p[2] + 1]}

Room(d, t, blocks, ignore_sector) ==
    {s \in Eligible(d.tracks[t], ignore_sector) : <<t, s>> \notin blocks}

\* The block that follows the directory block at (track, sector), when the
\* directory blocks in blocks are written: on the first of the directory
\* tracks, from track on in the order of the list, that has room, the
\* first sector with room in the circular order that next_free follows
\* from sector + directory_interleave.
NextPageBlock(d, track, sector, blocks) ==
    LET list == Layout(d).directory_tracks
        step == sector + Layout(d).directory_interleave
        Ignored(t) == IF t = track THEN sector ELSE NONE
        roomy == {i \in IndexOf(list, track)..Len(list) :
                      Room(d, list[i], blocks, Ignored(list[i])) # {}}
        On(t) ==
            <<t, FirstFrom(d.tracks[t],
                           IF step < length(d.tracks[t]) THEN step
                           ELSE IF step % length(d.tracks[t]) > 0
                           THEN (step % length(d.tracks[t])) - 1 ELSE 0,
                           Room(d, t, blocks, Ignored(t)))>>
    IN  IF roomy = {} THEN <<NONE, NONE>>
        ELSE On(list[CHOOSE i \in roomy : \A j \in roomy : i <= j])

\* C20: encode_directory writes the entries, in the order of the
\* directory, in blocks of 8: the first block at (first directory track, 1),
\* or at (40, 3) on the layout of 80 tracks, every later block at the block
\* that the search of the directory tracks in list order finds; the first
\* two bytes of a block are the address of the next block, and (0, 255) in
\* the last block; every entry takes 32 bytes, and the slots without entry
\* are zero.
C20_DirectoryPages ==
    [][ (/\ last'.op = "output"
         /\ Len(disk.directory) > 0
         /\ Len(last'.arg.placed) = (Len(disk.directory) + EntriesPerBlock - 1)
                                        \div EntriesPerBlock) =>
          LET placed == last'.arg.placed
              pages == Len(placed)
              n == Len(disk.directory)
              Encoded(e) == entry_encode(disk.directory[e], << >>, 0, 0)
          IN  /\ placed[1] = IF num_tracks(disk) = 80 THEN <<40, 3>>
                              ELSE <<Layout(disk).directory_tracks[1], 1>>
              /\ \A k \in 1..(pages - 1) :
                    /\ placed[k + 1] = NextPageBlock(disk, placed[k][1], placed[k][2],
                                                      {placed[j] : j \in 1..(k - 1)})
                    /\ <<ByteAt(disk', placed[k], 0), ByteAt(disk', placed[k], 1)>>
                           = placed[k + 1]
              /\ ByteAt(disk', placed[pages], 0) = 0
              /\ ByteAt(disk', placed[pages], 1) = 255
              /\ \A k \in 1..pages : \A slot \in 0..(EntriesPerBlock - 1) :
                    LET e == EntriesPerBlock * (k - 1) + slot + 1
                    IN  \A i \in 0..(EntrySize - 1) :
                            (slot > 0 \/ i >= 2) =>
                                ByteAt(disk', placed[k], EntrySize * slot + i)
                                    = IF e > n \/ i < 2 THEN 0 ELSE Encoded(e)[i + 1] ]_vars

\* A directory of two blocks is written, the second on the last directory
\* track of a disk with two of them.
C20_SecondTrackPage ==
    /\ last.op = "output"
    /\ Len(last.arg.placed) = 2
    /\ last.arg.placed[2][1] # last.arg.placed[1][1]

\* The tracks of d, other than the first directory track, with a free
\* sector.
RoomyTracks(d) ==
    {t \in 1..num_tracks(d) :
        /\ t # Layout(d).directory_tracks[1]
        /\ \E s \in 1..length(d.tracks[t]) : d.tracks[t].free[s]}

\* How far the track t of d is from the first directory track.
Away(d, t) ==
    IF t < Layout(d).directory_tracks[1] THEN Layout(d).directory_tracks[1] - t
    ELSE t - Layout(d).directory_tracks[1]

\* C21: find_first_block returns (t, s) where t is the track with a free
\* sector, other than the first directory track, that is nearest to the
\* first directory track, the lower track when two are equally near, and s
\* is the lowest free sector of t; it returns (None, None) exactly when no
\* track other than the first directory track has a free sector.
C21_NearestTrack ==
    LET found == find_first_block(disk)
        roomy == RoomyTracks(disk)
    IN  /\ found[1] = NONE <=> roomy = {}
        /\ found[1] # NONE =>
              /\ found[1] \in roomy
              /\ \A u \in roomy :
                    \/ Away(disk, found[1]) < Away(disk, u)
                    \/ Away(disk, found[1]) = Away(disk, u) /\ found[1] <= u
              /\ found[2] \in 0..(length(disk.tracks[found[1]]) - 1)
              /\ disk.tracks[found[1]].free[found[2] + 1]
              /\ \A v \in 0..(found[2] - 1) : ~disk.tracks[found[1]].free[v + 1]

\* A file was started on the track below the first directory track while
\* the track as far above it had a free sector, which it still has.
C21_LowerOfTwoTaken ==
    /\ last.op = "add_file" /\ last.ok
    /\ last.arg.chain[1][1] < Layout(disk).directory_tracks[1]
    /\ (2 * Layout(disk).directory_tracks[1]) - last.arg.chain[1][1] \in RoomyTracks(disk)

\* C22: the closed and locked flags of a directory entry are those of the
\* entry parsed from what output() wrote for it, for every type and every
\* combination of the flags: encode sets bit 0x80 of the type byte exactly
\* when closed is true and bit 0x40 exactly when locked is true, and the
\* parse sets the flags from these bits.
C22_FlagsRoundTrip ==
    Parsed =>
        /\ Len(disk.directory) = Len(image.directory)
        /\ \A k \in 1..Len(image.directory) :
              /\ (TypeByte(image.directory[k]) \div 128) % 2 = 1 <=> image.directory[k].closed
              /\ (TypeByte(image.directory[k]) \div 64) % 2 = 1 <=> image.directory[k].locked
              /\ disk.directory[k].closed = image.directory[k].closed
              /\ disk.directory[k].locked = image.directory[k].locked

\* C23: the first output() of a disk whose directory tracks no call has
\* touched places no directory block on a sector that encode_bam writes
\* after it, however many entries the directory has, and encode_bam does
\* not fail for finding a directory block on one of its sectors.
C23_NoPageOnBamSector ==
    [][ (Unwritten /\ last'.op = "output") =>
          /\ \A k \in 1..Len(last'.arg.placed) : last'.arg.placed[k] \notin BamSectors(disk)
          /\ last'.err # "block already used" ]_vars

\* The BAM entry of the track t in the blocks of d that encode_bam wrote:
\* the count, then the bytes of the mask.  Tracks 1..35 of a disk of up to
\* 70 tracks have 4 bytes from offset 4 of sector 0 of the first directory
\* track; tracks 36..70 have 4 bytes from offset 0 of sector 0 of the
\* second directory track; a track of a disk of 80 tracks has 6 bytes from
\* offset 16 of sector 1 or 2 of the directory track.
BamEntry(d, t) ==
    LET first == Layout(d).directory_tracks[1]
        Bytes(p, offset, n) == [i \in 1..n |-> ByteAt(d, p, offset + i - 1)]
    IN  IF num_tracks(d) > 70
        THEN Bytes(<<first, IF t <= 40 THEN 1 ELSE 2>>, 16 + 6 * ((t - 1) % 40), 6)
        ELSE IF t <= 35 THEN Bytes(<<first, 0>>, 4 + 4 * (t - 1), 4)
        ELSE Bytes(<<Layout(d).directory_tracks[2], 0>>, 4 * (t - 36), 4)

\* C24: when output() of a built disk has succeeded, the BAM entry of
\* every track in the blocks written agrees with the disk as output()
\* leaves it: the count is the number of free sectors of the track, and the
\* bit of a sector is 1 exactly when the sector is free; the sectors that
\* output() itself writes are used.
C24_BamAgrees ==
    (last.op = "output" /\ last.ok /\ origin = "built") =>
        \A t \in 1..num_tracks(disk) :
            /\ BamEntry(disk, t)[1]
                  = Cardinality({s \in 1..length(disk.tracks[t]) : disk.tracks[t].free[s]})
            /\ \A i \in 0..(length(disk.tracks[t]) - 1) :
                  MaskBit(disk.tracks[t], BamEntry(disk, t), i) = 1 <=> disk.tracks[t].free[i + 1]

\* C25: an add_file call that fails, for the name, for the type or for lack
\* of free sectors, leaves the tracks and the directory as they were.
C25_FailureChangesNothing ==
    [][ (last'.op = "add_file" /\ ~last'.ok) =>
          disk'.tracks = disk.tracks /\ disk'.directory = disk.directory ]_vars

\* C26: no block that add_file takes for a file, from find_first_block or
\* from find_next_block, lies on a track of the layout's directory_tracks.
C26_OffDirectoryTracks ==
    last.op = "add_file" =>
        /\ \A k \in 1..Len(last.arg.chain) :
              \A i \in 1..Len(Layout(disk).directory_tracks) :
                  last.arg.chain[k][1] # Layout(disk).directory_tracks[i]
        /\ \A k \in 1..Len(last.arg.calls) :
              \A i \in 1..Len(Layout(disk).directory_tracks) :
                  last.arg.calls[k][3] # Layout(disk).directory_tracks[i]

\* C27: an output() call that follows a successful output() call on the
\* same Disk, with no call between them, succeeds and writes the same bytes.
C27_OutputAgain ==
    [][ (last.op = "output" /\ last.ok /\ last'.op = "output") =>
          last'.ok /\ file' = file ]_vars

\* C28: output() on the Disk parsed from the bytes that output() of a built
\* disk wrote succeeds and writes these bytes again.
C28_ParsedOutputSame ==
    [][ (Parsed /\ image.origin = "built" /\ last'.op = "output") =>
          last'.ok /\ file' = file ]_vars

\* The blocks of the file of the directory entry k of d.
FileBlocks(d, k) == Chain(d, d.directory[k].track, d.directory[k].sector, {})

\* The sectors that differ between d and e, in their bytes or in their free
\* flag.
Rewritten(d, e) ==
    UNION {{<<t, s>> : s \in {u \in 0..(length(d.tracks[t]) - 1) :
                                \/ read(d.tracks[t], u) # read(e.tracks[t], u)
                                \/ is_free(d.tracks[t], u) # is_free(e.tracks[t], u)}}
           : t \in {v \in 1..num_tracks(d) : d.tracks[v] # e.tracks[v]}}

\* C29: on a disk built from a layout, a step of add_file, add_block,
\* add_del or output() writes free sectors only, none of them a block of a
\* file that was on the disk before the step, and after the step the block
\* sets of the files of the directory are pairwise disjoint.
C29_NoSharedBlock ==
    [][ (origin = "built" /\ origin' = "built") =>
          /\ \A p \in Rewritten(disk, disk') : is_free(disk.tracks[p[1]], p[2])
          /\ \A k \in 1..Len(disk.directory) :
                 /\ FileBlocks(disk', k) = FileBlocks(disk, k)
                 /\ FileBlocks(disk, k) \cap Rewritten(disk, disk') = {}
          /\ \A i, j \in 1..Len(disk'.directory) :
                 i # j => FileBlocks(disk', i) \cap FileBlocks(disk', j) = {} ]_vars

\* Two files of two blocks and of one block and a block of add_block are
\* on the disk that output() wrote.
C29_FilesAndBlockWritten ==
    /\ last.op = "output" /\ last.ok
    /\ Len(files) = 2
    /\ \E p \in ShareTargets(disk) :
           /\ read(disk.tracks[p[1]], p[2]) = BlockData
           /\ \A k \in 1..Len(disk.directory) : p \notin FileBlocks(disk, k)
    /\ \E i, j \in 1..Len(disk.directory) :
           Cardinality(FileBlocks(disk, i)) = 2 /\ Cardinality(FileBlocks(disk, j)) = 1

\* C30: after any sequence of add_file and add_del calls on a disk built
\* from a layout, no two entries of the directory have the same name.
C30_UniqueNames ==
    (origin = "built" /\ plain) =>
        \A i, j \in 1..Len(disk.directory) :
            i # j => disk.directory[i].name # disk.directory[j].name

====
